---------------------------- MODULE Spec2Model ----------------------------
(***************************************************************************)
(* Model of the mesh-fairing add-on: the fairing orchestrator              *)
(* (geometry.fair, geometry.setup_fairing), the solver port (linalg), the  *)
(* cancellable worker threads and the modal operators that drive them      *)
(* (operators.py, types.CancellableThread).                                *)
(*                                                                         *)
(* Two threads take steps: the controller (Blender's main thread, which    *)
(* delivers invoke/modal events) and the worker thread.  A step of the     *)
(* worker is one checkpoint (a read of the cancel flag together with the   *)
(* branch it decides) or one block of work between two checkpoints.        *)
(***************************************************************************)
EXTENDS Integers, Sequences, FiniteSets, TLC

(***************************************************************************)
(* Bounds of the model.                                                    *)
(***************************************************************************)
NumVerts == 3

NumSolutions == 1

(***************************************************************************)
(* Exact rational arithmetic, standing for Python floats: a rational is a  *)
(* pair <<numerator, denominator>> in lowest terms, denominator > 0.       *)
(***************************************************************************)
Abs(n) == IF n < 0 THEN -n ELSE n

RECURSIVE Gcd(_, _)
Gcd(m, n) == IF n = 0 THEN m ELSE Gcd(n, m % n)

RNorm(n, d) ==
    LET s == IF d < 0 THEN -1 ELSE 1
        g == Gcd(Abs(n), Abs(d))
    IN  IF n = 0 THEN <<0, 1>> ELSE <<(s * n) \div g, (s * d) \div g>>

RInt(n) == <<n, 1>>

RAdd(p, q) ==
    LET g == Gcd(p[2], q[2])
    IN  RNorm(p[1] * (q[2] \div g) + q[1] * (p[2] \div g), (p[2] \div g) * q[2])

RMul(p, q) == RNorm(p[1] * q[1], p[2] * q[2])

RNeg(p) == <<-p[1], p[2]>>

RSub(p, q) == RAdd(p, RNeg(q))

RDiv(p, q) == RNorm(p[1] * q[2], p[2] * q[1])

\* The sum of f over the set S.
RECURSIVE RSum(_, _)
RSum(f, S) ==
    IF S = {} THEN RInt(0)
    ELSE LET x == CHOOSE y \in S : TRUE
         IN  RAdd(f[x], RSum(f, S \ {x}))

(***************************************************************************)
(* The mesh adjacency view (bmesh).  faces is the sequence of triangles of  *)
(* the BMesh, each a triple of vertices; loops are numbered 3*(f-1)+k for   *)
(* corner k of face f.                                                      *)
(***************************************************************************)
VARIABLES
    faces              \* bm.faces

Verts == 1..NumVerts

\* A fan of triangles around vertex 1 (closed when there are four or more
\* vertices): the mesh the operators work on.
Fan ==
    [f \in 1..(IF NumVerts < 3 THEN 0 ELSE IF NumVerts = 3 THEN 1 ELSE NumVerts - 1) |->
        <<1, f + 1, IF f + 2 > NumVerts THEN 2 ELSE f + 2>>]

NumFaces == Len(faces)

Face(f) == faces[f]

Loops == 1..(3 * NumFaces)

loop_face(l) == ((l - 1) \div 3) + 1

loop_corner(l) == ((l - 1) % 3) + 1

loop_vert(l) == Face(loop_face(l))[loop_corner(l)]

link_loop_next_vert(l) == Face(loop_face(l))[(loop_corner(l) % 3) + 1]

link_loops(v) == SelectSeq([l \in Loops |-> l], LAMBDA l : loop_vert(l) = v)

link_edges(v) ==
    {e \in {{loop_vert(l), link_loop_next_vert(l)} : l \in Loops} : v \in e}


edge_is_boundary(e) ==
    Cardinality({f \in 1..NumFaces : e \subseteq {Face(f)[k] : k \in 1..3}}) = 1

(***************************************************************************)
(* Weight functions.  The uniform weights are exact.  The Voronoi and      *)
(* cotangent weights depend on floating-point geometry (areas, angles);    *)
(* here every incident triangle counts one unit of area and every apex     *)
(* angle has cotangent one.                                                *)
(***************************************************************************)
\* sys.maxsize, held at the largest integer TLC represents.
sys_maxsize == 2147483647

\* calc_uniform_vertex_weight returning 1 for a vertex that has edges.
calc_uniform_vertex_weight_one(v) ==
    LET n == Cardinality(link_edges(v))
    IN  IF n # 0 THEN RInt(1) ELSE RInt(sys_maxsize)

calc_uniform_vertex_weight(v) ==
    LET n == Cardinality(link_edges(v))
    IN  IF n # 0 THEN RNorm(1, n) ELSE RInt(sys_maxsize)

\* The 1e12 returned for a vertex of zero area, scaled to fit TLC's integers.
LargeWeight == 1000000

calc_voronoi_vertex_weight(v) ==
    LET area == Len(link_loops(v))
    IN  IF area # 0 THEN RNorm(1, area) ELSE RInt(LargeWeight)

calc_cotangent_loop_weight(l) ==
    LET apexes == IF edge_is_boundary({loop_vert(l), link_loop_next_vert(l)})
                  THEN 1 ELSE 2
    IN  RNorm(apexes, 2)

\* 'lambda l: 1' replaced by a weight that differs from face to face.
uniform_loop_weight_by_face(l) == RInt(loop_face(l))

uniform_loop_weight(l) == RInt(1)

\* types.VertexWeight.create_cache / types.LoopWeight.create_cache: the
\* mapping a cache holds once every key has been looked up.
VertexWeight_create_cache(kind) ==
    IF kind = "UNIFORM"
    THEN [v \in Verts |-> calc_uniform_vertex_weight(v)]
    ELSE [v \in Verts |-> calc_voronoi_vertex_weight(v)]

LoopWeight_create_cache(kind) ==
    IF kind = "UNIFORM"
    THEN [l \in Loops |-> uniform_loop_weight(l)]
    ELSE [l \in Loops |-> calc_cotangent_loop_weight(l)]

(***************************************************************************)
(* geometry.setup_fairing: the recursive row builder.  S is the linear     *)
(* system [A |-> dict keyed by <<i, j>>, b |-> rows of three entries];     *)
(* pos is the position (v.co) of every vertex, three rationals.             *)
(***************************************************************************)
\* Lines 298-311 with 'A[i, j] += multiplier' at line 303.
setup_fairing_base_adds(v, i, S, multiplier, vert_col_map, pos) ==
    IF v \in DOMAIN vert_col_map
    THEN LET j == vert_col_map[v]
         IN  IF <<i, j>> \in DOMAIN S.A
             THEN [S EXCEPT !.A[<<i, j>>] = RAdd(@, multiplier)]
             ELSE [S EXCEPT !.A = @ @@ (<<i, j>> :> RSub(RInt(0), multiplier))]
    ELSE [S EXCEPT !.b[i] = <<RAdd(@[1], RMul(multiplier, pos[v][1])),
                              RAdd(@[2], RMul(multiplier, pos[v][2])),
                              RAdd(@[3], RMul(multiplier, pos[v][3]))>>]

\* Lines 298-311: the base case of setup_fairing (order 0).
setup_fairing_base(v, i, S, multiplier, vert_col_map, pos) ==
    IF v \in DOMAIN vert_col_map
    THEN LET j == vert_col_map[v]
         IN  IF <<i, j>> \in DOMAIN S.A
             THEN [S EXCEPT !.A[<<i, j>>] = RSub(@, multiplier)]
             ELSE [S EXCEPT !.A = @ @@ (<<i, j>> :> RSub(RInt(0), multiplier))]
    ELSE [S EXCEPT !.b[i] = <<RAdd(@[1], RMul(multiplier, pos[v][1])),
                              RAdd(@[2], RMul(multiplier, pos[v][2])),
                              RAdd(@[3], RMul(multiplier, pos[v][3]))>>]

\* Line 324 without the factor w_i.
self_multiplier_without_vertex_weight(w_i, R, multiplier) ==
    RMul(RInt(-1), RMul(R.w_ij_sum, multiplier))

\* Line 324 without the factor -1.
self_multiplier_positive(w_i, R, multiplier) ==
    RMul(w_i, RMul(R.w_ij_sum, multiplier))

\* Line 324 with the number of loops in the place of w_ij_sum.
self_multiplier_counts_loops(w_i, R, multiplier) ==
    RMul(RInt(-1), RMul(w_i, RMul(RInt(R.count), multiplier)))

\* Line 324: the multiplier of the call on v itself, after the loop left
\* the sum of the loop weights in R.w_ij_sum.
self_multiplier(w_i, R, multiplier) ==
    RMul(RInt(-1), RMul(w_i, RMul(R.w_ij_sum, multiplier)))

\* Python evaluates a call's arguments before the call; TLC evaluates an
\* operator's arguments on demand.  Evaluated(x) makes TLC compute x where
\* the code computes it.
Evaluated(x) == x = x

RECURSIVE setup_fairing(_, _, _, _, _, _, _, _, _)
RECURSIVE setup_fairing_loops(_, _, _, _, _, _, _, _, _, _, _)

setup_fairing(v, i, S, multiplier, depth, vert_col_map, vert_weights, loop_weights, pos) ==
    IF depth = 0
    THEN setup_fairing_base(v, i, S, multiplier, vert_col_map, pos)
    ELSE LET w_i == vert_weights[v]
             R   == setup_fairing_loops(link_loops(v), 1, RInt(0), w_i, i, S,
                                        multiplier, depth, vert_col_map,
                                        vert_weights, <<loop_weights, pos>>)
         IN  setup_fairing(v, i, R.S, self_multiplier(w_i, R, multiplier),
                           depth - 1, vert_col_map, vert_weights, loop_weights, pos)

\* The 'for l in v.link_loops' loop of setup_fairing, from loop number k on.
setup_fairing_loops(ls, k, w_ij_sum, w_i, i, S, multiplier, depth, vert_col_map, vert_weights, lp) ==
    IF k > Len(ls)
    THEN [S |-> S, w_ij_sum |-> w_ij_sum, count |-> Len(ls)]
    ELSE LET l     == ls[k]
             other == link_loop_next_vert(l)
             w_ij  == lp[1][l]
             S2    == setup_fairing(other, i, S, RMul(RMul(w_i, w_ij), multiplier),
                                    depth - 1, vert_col_map, vert_weights, lp[1], lp[2])
         IN  IF Evaluated(S2)
             THEN setup_fairing_loops(ls, k + 1, RAdd(w_ij_sum, w_ij), w_i, i, S2,
                                      multiplier, depth, vert_col_map, vert_weights, lp)
             ELSE S2

(***************************************************************************)
(* linalg: the solver port.  A call returns None or an n x 3 array.  What  *)
(* the numeric libraries return is outside the repository: a numeric       *)
(* backend either fails (the exception is caught, None is returned) or     *)
(* returns one of NumSolutions candidate arrays.                           *)
(***************************************************************************)
Unbound == [tag |-> "unbound", val |-> <<>>]

None == [tag |-> "None", val |-> <<>>]

Array(a) == [tag |-> "array", val |-> a]

Solutions(n) ==
    {Array([c \in 0..(n - 1) |-> <<RInt(10 * s + c), RInt(s), RInt(c)>>]) :
        s \in 1..NumSolutions}

\* Fault: the null backend returns an array.
NullSolver_solve_array(A, b) == Solutions(Cardinality(DOMAIN b))

NullSolver_solve(A, b) == {None}

\* Fault: the dense backend gives up on the empty system.
NumPySolver_solve_rejects_empty(A, b) ==
    LET n == Cardinality(DOMAIN b)
    IN  IF n = 0 THEN {None} ELSE {None} \cup Solutions(n)

\* An exception raised inside the try block of a solve.
Raised == [tag |-> "raised", val |-> <<>>]

\* Lines 95-99: numpy.zeros, asarray, the copy of A and numpy.linalg.solve
\* raise (a singular matrix, a bad shape) or give an array; the empty 0x0
\* system is accepted and gives an empty array.
numpy_linalg_solve(n) == IF n = 0 THEN Solutions(0) ELSE {Raised} \cup Solutions(n)

\* Lines 138-144: dok_matrix, tocsc, scipy.array, splu and factor.solve
\* raise or give an array.
scipy_splu_solve(n) == {Raised} \cup Solutions(n)

\* Fault: the try block has no 'except Exception', the exception leaves
\* solve().
except_Exception_missing(outcome) == outcome

\* Lines 92, 100-103 / 135, 145-148: 'x = None' before the try block and
\* 'except Exception' around it: an exception leaves x at None.
except_Exception(outcome) == IF outcome.tag = "raised" THEN None ELSE outcome

NumPySolver_solve(A, b) ==
    {except_Exception(o) : o \in numpy_linalg_solve(Cardinality(DOMAIN b))}

SciPySolver_solve(A, b) ==
    {except_Exception(o) : o \in scipy_splu_solve(Cardinality(DOMAIN b))}

solver_solve(s, A, b) ==
    CASE s = "NullSolver"  -> NullSolver_solve(A, b)
      [] s = "NumPySolver" -> NumPySolver_solve(A, b)
      [] s = "SciPySolver" -> SciPySolver_solve(A, b)

\* Fault: init() never looks for scipy.
init_solver_without_scipy(numpy, scipy) ==
    IF ~numpy THEN "NullSolver" ELSE "NumPySolver"

\* linalg.init: the backend chosen for the installed libraries.
init_solver(numpy, scipy) ==
    IF ~numpy THEN "NullSolver"
    ELSE IF scipy THEN "SciPySolver"
    ELSE "NumPySolver"


(***************************************************************************)
(* State.                                                                  *)
(***************************************************************************)
VARIABLES
    numpy_installed,   \* moduleutil.is_installed('numpy')
    scipy_installed,   \* moduleutil.is_installed('scipy')
    solver,            \* linalg.solver
    registered,        \* register() has run
    op,                \* "mesh" (MESH_OT_...) or "sculpt" (SCULPT_OT_...)
    continuity,        \* self.continuity as its value 1..3
    option,            \* self.triangulate (mesh) / use_dynamic_topology_sculpting (sculpt)
    is_boundary,       \* BMVert.is_boundary
    is_wire,           \* BMVert.is_wire
    select,            \* v.select (mesh) / the mask test (sculpt)
    co,                \* BMVert.co of the worker's BMesh
    vertices_co,       \* sculpt_object.data.vertices[..].co
    modal_handler,     \* self._modal_handler
    cpc,               \* position of the controller inside modal_monitor
    op_result,         \* what the operator last returned
    timer,             \* self._timer is registered
    thread,            \* "unstarted", "alive" or "dead"
    cancel_event,      \* self._cancel_event.is_set()
    wpc,               \* position of the worker inside run()
    affected_verts,    \* affected_verts of run()
    widx,              \* index of the sculpt write-back loop
    ret_pre,           \* result of the pre-fairing call
    ret_fair,          \* result of the requested call
    fr,                \* the frame of the running fair() call
    gh,                \* history of the running fair() call (not program state)
    tc,                \* the frame of a direct call of fair / setup_fairing
    wc,                \* a types.Cache and the evaluations of its _calc
    th,                \* the status fields of a CancellableThread and a reader
    nb                 \* the frame of a get_closed_neighborhood call

vars == <<numpy_installed, scipy_installed, solver, registered, op, continuity,
          option, is_boundary, is_wire, select, co, vertices_co, modal_handler,
          cpc, op_result, timer, thread, cancel_event, wpc, affected_verts,
          widx, ret_pre, ret_fair, fr, gh, faces, tc, wc, th, nb>>

\* What the operators never touch: the topology of the mesh, and the state
\* of the direct calls, which are made outside an operator run.
direct_vars == <<faces, tc, wc, th, nb>>

inputs == <<numpy_installed, scipy_installed, op, continuity, option,
            is_boundary, is_wire, select, direct_vars>>

InitCo == [v \in Verts |-> <<RInt(v), RInt(2 * v), RInt(0)>>]

MeshCo == IF op = "mesh" THEN co ELSE vertices_co

IdleFrame ==
    [pc |-> "idle", verts |-> <<>>, order |-> 0, vert_col_map |-> <<>>,
     items |-> <<>>, vert_weights |-> <<>>, loop_weights |-> <<>>,
     A |-> <<>>, b |-> <<>>, row |-> 0, x |-> Unbound, aidx |-> 0,
     status |-> <<"">>, ret |-> FALSE]

IdleCall == [pc |-> "idle"]

IdleCache == [pc |-> "idle"]

IdleStatus == [pc |-> "idle"]

IdleSearch == [pc |-> "idle"]

IdleHistory ==
    [pass |-> "none", entry_cancel |-> FALSE, entry_co |-> InitCo,
     n_setup |-> 0, rows |-> {}, n_solve |-> 0, solved |-> Unbound,
     written |-> {}, status_log |-> <<>>, chk_solve |-> "none",
     chk_apply |-> "none", cancel_at |-> "none"]

Init ==
    /\ numpy_installed \in BOOLEAN
    /\ scipy_installed \in BOOLEAN
    /\ scipy_installed => numpy_installed
    /\ solver = "NullSolver"
    /\ registered = FALSE
    /\ op \in {"mesh", "sculpt"}
    /\ continuity \in 1..3
    /\ option \in BOOLEAN
    /\ \E k \in 0..NumVerts : select = [v \in Verts |-> v <= k]
    /\ is_boundary \in [Verts -> BOOLEAN]
    /\ is_wire \in [Verts -> BOOLEAN]
    /\ \A v \in Verts : is_boundary[v] => select[v] /\ v % 2 = 1
    /\ \A v \in Verts : is_wire[v] => select[v] /\ v % 2 = 0
    /\ co = InitCo
    /\ vertices_co = InitCo
    /\ modal_handler = "none"
    /\ cpc = "idle"
    /\ op_result = "none"
    /\ timer = FALSE
    /\ thread = "unstarted"
    /\ cancel_event = FALSE
    /\ wpc = "unstarted"
    /\ affected_verts = Unbound
    /\ widx = 0
    /\ ret_pre = "none"
    /\ ret_fair = "none"
    /\ fr = IdleFrame
    /\ gh = IdleHistory
    /\ faces = Fan
    /\ tc = IdleCall
    /\ wc = IdleCache
    /\ th = IdleStatus
    /\ nb = IdleSearch


(***************************************************************************)
(* geometry.fair.  fr.pc is the position inside the call:                  *)
(*   "setup_loop"  at the head of the setup loop (row fr.row is next)      *)
(*   "setup_row"   inside setup_fairing for row fr.row                     *)
(*   "solve"       inside linalg.solver.solve                              *)
(*   "apply_check" at the 'Apply results' checkpoint                       *)
(*   "apply"       inside the apply loop (item fr.aidx is next)            *)
(*   "returned"    the call has returned fr.ret                            *)
(***************************************************************************)
is_set == cancel_event

\* The keys of a dict built from the sequence s, in insertion order.
RECURSIVE DictKeys(_, _, _)
DictKeys(s, k, acc) ==
    IF k > Len(s) THEN acc
    ELSE IF \E j \in 1..Len(acc) : acc[j] = s[k]
         THEN DictKeys(s, k + 1, acc)
         ELSE DictKeys(s, k + 1, Append(acc, s[k]))

\* Fault: wire vertices are taken for interior ones.
interior_verts_keeps_wire(verts) ==
    SelectSeq(verts, LAMBDA v : ~is_boundary[v])

\* Lines 239-240: interior_verts and vert_col_map.
interior_verts(verts) ==
    SelectSeq(verts, LAMBDA v : ~is_boundary[v] /\ ~is_wire[v])

build_vert_col_map(verts) ==
    LET iv == interior_verts(verts)
    IN  [v \in {iv[k] : k \in 1..Len(iv)} |->
            CHOOSE c \in 0..(Len(iv) - 1) :
                /\ iv[c + 1] = v
                /\ \A d \in 0..(Len(iv) - 1) : iv[d + 1] = v => d <= c]

\* vert_col_map.items()
dict_items(verts) ==
    LET keys == DictKeys(interior_verts(verts), 1, <<>>)
        m    == build_vert_col_map(verts)
    IN  [k \in 1..Len(keys) |-> <<keys[k], m[keys[k]]>>]

NumCols(f) == Cardinality(DOMAIN f.vert_col_map)

\* Fault: b gets one row too many.
fair_frame_extra_row(verts, order, vert_weights, loop_weights) ==
    LET m == build_vert_col_map(verts)
        n == Cardinality(DOMAIN m)
    IN  [pc |-> "setup_loop", verts |-> verts, order |-> order,
         vert_col_map |-> m, items |-> dict_items(verts),
         vert_weights |-> vert_weights, loop_weights |-> loop_weights,
         A |-> <<>>,
         b |-> [j \in 0..n |-> [c \in 1..3 |-> RInt(0)]],
         row |-> 1, x |-> Unbound, aidx |-> 1, status |-> <<"">>, ret |-> FALSE]

\* Lines 238-242: the frame of a new call.
fair_frame(verts, order, vert_weights, loop_weights) ==
    LET m == build_vert_col_map(verts)
        n == Cardinality(DOMAIN m)
    IN  [pc |-> "setup_loop", verts |-> verts, order |-> order,
         vert_col_map |-> m, items |-> dict_items(verts),
         vert_weights |-> vert_weights, loop_weights |-> loop_weights,
         A |-> <<>>,
         b |-> [j \in 0..(n - 1) |-> [c \in 1..3 |-> RInt(0)]],
         row |-> 1, x |-> Unbound, aidx |-> 1, status |-> <<"">>, ret |-> FALSE]

fair_history(pass) ==
    [IdleHistory EXCEPT !.pass = pass, !.entry_cancel = cancel_event,
                        !.entry_co = co,
                        !.cancel_at = IF cancel_event THEN "entry" ELSE "none"]

progress(col, n) == ((col + 1) * 100) \div n

worker_vars == <<thread, wpc, affected_verts, widx, ret_pre, ret_fair>>

controller_vars == <<modal_handler, cpc, op_result, timer>>

config_vars == <<numpy_installed, scipy_installed, solver, registered, op,
                 continuity, option, is_boundary, is_wire, select, direct_vars>>

\* Fault: the setup loop does not test the cancel flag.
fair_setup_check_unguarded ==
    /\ fr.pc = "setup_loop"
    /\ fr.row <= Len(fr.items)
    /\ LET col == fr.items[fr.row][2]
           st  == <<"Setting up linear system", progress(col, NumCols(fr))>>
       IN  /\ fr' = [fr EXCEPT !.pc = "setup_row", !.status = st]
           /\ gh' = [gh EXCEPT !.status_log = Append(@, st[1])]
    /\ UNCHANGED <<config_vars, controller_vars, worker_vars, cancel_event,
                   co, vertices_co>>

\* Lines 243-247: head of one setup-loop iteration, the cancel checkpoint.
fair_setup_check ==
    /\ fr.pc = "setup_loop"
    /\ fr.row <= Len(fr.items)
    /\ IF ~is_set
       THEN LET col == fr.items[fr.row][2]
                st  == <<"Setting up linear system", progress(col, NumCols(fr))>>
            IN  /\ fr' = [fr EXCEPT !.pc = "setup_row", !.status = st]
                /\ gh' = [gh EXCEPT !.status_log = Append(@, st[1])]
       ELSE /\ fr' = [fr EXCEPT !.row = @ + 1]
            /\ gh' = gh
    /\ UNCHANGED <<config_vars, controller_vars, worker_vars, cancel_event,
                   co, vertices_co>>

\* Line 248: setup_fairing(v, col, A, b, 1, order, ...) runs to its end.
fair_setup_row ==
    /\ fr.pc = "setup_row"
    /\ LET v   == fr.items[fr.row][1]
           col == fr.items[fr.row][2]
           S   == setup_fairing(v, col, [A |-> fr.A, b |-> fr.b], RInt(1),
                                fr.order, fr.vert_col_map, fr.vert_weights,
                                fr.loop_weights, co)
       IN  /\ fr' = [fr EXCEPT !.pc = "setup_loop", !.A = S.A, !.b = S.b,
                               !.row = @ + 1]
           /\ gh' = [gh EXCEPT !.n_setup = @ + 1, !.rows = @ \cup {col}]
    /\ UNCHANGED <<config_vars, controller_vars, worker_vars, cancel_event,
                   co, vertices_co>>

\* Fault: the solve is not guarded by the cancel flag.
fair_solve_check_unguarded ==
    /\ fr.pc = "setup_loop"
    /\ fr.row > Len(fr.items)
    /\ fr' = [fr EXCEPT !.pc = "solve", !.status = <<"Solving linear system">>]
    /\ gh' = [gh EXCEPT !.status_log = Append(@, "Solving linear system"),
                        !.chk_solve = IF is_set THEN "set" ELSE "unset"]
    /\ UNCHANGED <<config_vars, controller_vars, worker_vars, cancel_event,
                   co, vertices_co>>

\* Fault: the 'Solve' checkpoint uses the value the flag had when fair was
\* entered.
fair_solve_check_stale_flag ==
    /\ fr.pc = "setup_loop"
    /\ fr.row > Len(fr.items)
    /\ IF ~gh.entry_cancel
       THEN /\ fr' = [fr EXCEPT !.pc = "solve", !.status = <<"Solving linear system">>]
            /\ gh' = [gh EXCEPT !.status_log = Append(@, "Solving linear system"),
                                !.chk_solve = "unset"]
       ELSE /\ fr' = [fr EXCEPT !.pc = "apply_check"]
            /\ gh' = [gh EXCEPT !.chk_solve = "set"]
    /\ UNCHANGED <<config_vars, controller_vars, worker_vars, cancel_event,
                   co, vertices_co>>

\* Lines 250-253: the setup loop has ended; the 'Solve' checkpoint.
fair_solve_check ==
    /\ fr.pc = "setup_loop"
    /\ fr.row > Len(fr.items)
    /\ IF ~is_set
       THEN /\ fr' = [fr EXCEPT !.pc = "solve", !.status = <<"Solving linear system">>]
            /\ gh' = [gh EXCEPT !.status_log = Append(@, "Solving linear system"),
                                !.chk_solve = "unset"]
       ELSE /\ fr' = [fr EXCEPT !.pc = "apply_check"]
            /\ gh' = [gh EXCEPT !.chk_solve = "set"]
    /\ UNCHANGED <<config_vars, controller_vars, worker_vars, cancel_event,
                   co, vertices_co>>

\* Line 254: x = linalg.solver.solve(A, b)
fair_solve ==
    /\ fr.pc = "solve"
    /\ \E r \in solver_solve(solver, fr.A, fr.b) :
          /\ fr' = IF r.tag = "raised"
                   THEN [fr EXCEPT !.pc = "Exception"]
                   ELSE [fr EXCEPT !.pc = "apply_check", !.x = r]
          /\ gh' = [gh EXCEPT !.n_solve = @ + 1, !.solved = r]
    /\ UNCHANGED <<config_vars, controller_vars, worker_vars, cancel_event,
                   co, vertices_co>>

\* Fault: the apply is not guarded by the cancel flag.
fair_apply_check_ignores_cancel ==
    /\ fr.pc = "apply_check"
    /\ gh' = [gh EXCEPT !.chk_apply = IF is_set THEN "set" ELSE "unset",
                        !.status_log = IF fr.x.tag = "array"
                                       THEN Append(@, "Applying results") ELSE @]
    /\ fr' = IF fr.x.tag = "unbound"
             THEN [fr EXCEPT !.pc = "UnboundLocalError"]
             ELSE IF fr.x.tag # "None"
             THEN [fr EXCEPT !.pc = "apply", !.status = <<"Applying results">>]
             ELSE [fr EXCEPT !.pc = "returned", !.ret = FALSE]
    /\ UNCHANGED <<config_vars, controller_vars, worker_vars, cancel_event,
                   co, vertices_co>>

\* Lines 256-260 and 265: the 'Apply' checkpoint.  Reading x while it is
\* unassigned raises UnboundLocalError.
fair_apply_check ==
    /\ fr.pc = "apply_check"
    /\ IF ~is_set
       THEN IF fr.x.tag = "unbound"
            THEN /\ fr' = [fr EXCEPT !.pc = "UnboundLocalError"]
                 /\ gh' = [gh EXCEPT !.chk_apply = "unset"]
            ELSE IF fr.x.tag # "None"
            THEN /\ fr' = [fr EXCEPT !.pc = "apply", !.status = <<"Applying results">>]
                 /\ gh' = [gh EXCEPT !.status_log = Append(@, "Applying results"),
                                     !.chk_apply = "unset"]
            ELSE /\ fr' = [fr EXCEPT !.pc = "returned", !.ret = FALSE]
                 /\ gh' = [gh EXCEPT !.chk_apply = "unset"]
       ELSE /\ fr' = [fr EXCEPT !.pc = "returned", !.ret = FALSE]
            /\ gh' = [gh EXCEPT !.chk_apply = "set"]
    /\ UNCHANGED <<config_vars, controller_vars, worker_vars, cancel_event,
                   co, vertices_co>>

\* Fault: the apply loop writes the vertex found at the column's place in
\* the input list, which need not be the vertex of that column.
fair_apply_write_by_list_index ==
    /\ fr.pc = "apply"
    /\ fr.aidx <= Len(fr.items)
    /\ LET v   == fr.verts[fr.aidx]
           col == fr.items[fr.aidx][2]
       IN  /\ co' = [co EXCEPT ![v] = fr.x.val[col]]
           /\ gh' = [gh EXCEPT !.written = @ \cup {v}]
    /\ fr' = [fr EXCEPT !.aidx = @ + 1]
    /\ UNCHANGED <<config_vars, controller_vars, worker_vars, cancel_event,
                   vertices_co>>

\* Fault: the apply loop tests the cancel flag and gives up midway.
fair_apply_write_interruptible ==
    /\ fr.pc = "apply"
    /\ fr.aidx <= Len(fr.items)
    /\ IF is_set
       THEN /\ fr' = [fr EXCEPT !.pc = "returned", !.ret = FALSE]
            /\ UNCHANGED <<co, gh>>
       ELSE LET v   == fr.items[fr.aidx][1]
                col == fr.items[fr.aidx][2]
            IN  /\ co' = [co EXCEPT ![v] = fr.x.val[col]]
                /\ gh' = [gh EXCEPT !.written = @ \cup {v}]
                /\ fr' = [fr EXCEPT !.aidx = @ + 1]
    /\ UNCHANGED <<config_vars, controller_vars, worker_vars, cancel_event,
                   vertices_co>>

\* Lines 261-262: one iteration of the apply loop, v.co = x[col].
fair_apply_write ==
    /\ fr.pc = "apply"
    /\ fr.aidx <= Len(fr.items)
    /\ LET v   == fr.items[fr.aidx][1]
           col == fr.items[fr.aidx][2]
       IN  /\ co' = [co EXCEPT ![v] = fr.x.val[col]]
           /\ gh' = [gh EXCEPT !.written = @ \cup {v}]
    /\ fr' = [fr EXCEPT !.aidx = @ + 1]
    /\ UNCHANGED <<config_vars, controller_vars, worker_vars, cancel_event,
                   vertices_co>>

\* Fault: 'return True' is missing, the call falls through to 'return False'.
fair_apply_return_falls_through ==
    /\ fr.pc = "apply"
    /\ fr.aidx > Len(fr.items)
    /\ fr' = [fr EXCEPT !.pc = "returned", !.ret = FALSE]
    /\ UNCHANGED <<config_vars, controller_vars, worker_vars, cancel_event,
                   co, vertices_co, gh>>

\* Line 263: return True
fair_apply_return ==
    /\ fr.pc = "apply"
    /\ fr.aidx > Len(fr.items)
    /\ fr' = [fr EXCEPT !.pc = "returned", !.ret = TRUE]
    /\ UNCHANGED <<config_vars, controller_vars, worker_vars, cancel_event,
                   co, vertices_co, gh>>

fair ==
    \/ fair_setup_check
    \/ fair_setup_row
    \/ fair_solve_check
    \/ fair_solve
    \/ fair_apply_check
    \/ fair_apply_write
    \/ fair_apply_return


(***************************************************************************)
(* types.CancellableThread                                                 *)
(***************************************************************************)
is_alive == thread = "alive"

is_cancelled == cancel_event

\* cancel(), called by the worker on itself: the thread is alive, the
\* event is set.
cancel_by_worker == IF is_alive THEN TRUE ELSE cancel_event

(***************************************************************************)
(* WorkerThread.run of both operators.  wpc is the position inside run().  *)
(***************************************************************************)
selected_verts ==
    SelectSeq([v \in Verts |-> v], LAMBDA v : select[v])

fair_untouched == <<fr, gh>>

\* Lines 162-166 (mesh) / 371-381 (sculpt): status, BMesh, and for the
\* sculpt worker affected_verts = list().
worker_init ==
    /\ wpc = "init"
    /\ wpc' = "affected_check"
    /\ affected_verts' = IF op = "sculpt" THEN Array(<<>>) ELSE affected_verts
    /\ UNCHANGED <<config_vars, controller_vars, thread, widx, ret_pre,
                   ret_fair, cancel_event, co, vertices_co, fair_untouched>>

\* Lines 168-171 (mesh) / 382-389 (sculpt)
worker_affected ==
    /\ wpc = "affected_check"
    /\ affected_verts' = IF ~is_cancelled THEN Array(selected_verts)
                         ELSE affected_verts
    /\ wpc' = IF op = "sculpt" THEN "empty_check" ELSE "triangulate_check"
    /\ UNCHANGED <<config_vars, controller_vars, thread, widx, ret_pre,
                   ret_fair, cancel_event, co, vertices_co, fair_untouched>>

\* Lines 391-394 (sculpt only): nothing to do, the worker cancels itself.
worker_empty_check ==
    /\ wpc = "empty_check"
    /\ cancel_event' = IF ~is_cancelled /\ Len(affected_verts.val) = 0
                       THEN cancel_by_worker ELSE cancel_event
    /\ wpc' = "triangulate_check"
    /\ UNCHANGED <<config_vars, controller_vars, thread, affected_verts, widx,
                   ret_pre, ret_fair, co, vertices_co, fair_untouched>>

\* Line 174 (mesh) / 397 (sculpt): the guard of the triangulation block.
worker_triangulate_check ==
    /\ wpc = "triangulate_check"
    /\ wpc' = IF ~is_cancelled /\ (op = "sculpt" \/ option)
              THEN "triangulate" ELSE "pre_check"
    /\ UNCHANGED <<config_vars, controller_vars, thread, affected_verts, widx,
                   ret_pre, ret_fair, cancel_event, co, vertices_co,
                   fair_untouched>>

\* Lines 175-189 (mesh) / 398-408 (sculpt): bmesh.ops.triangulate changes
\* faces, never a position; the faces of this mesh are triangles already.
worker_triangulate ==
    /\ wpc = "triangulate"
    /\ wpc' = IF affected_verts.tag = "unbound" THEN "UnboundLocalError"
              ELSE "pre_check"
    /\ UNCHANGED <<config_vars, controller_vars, thread, affected_verts, widx,
                   ret_pre, ret_fair, cancel_event, co, vertices_co,
                   fair_untouched>>

\* Line 192 (mesh) / 411 (sculpt): the guard of the pre-fairing block.
worker_pre_check ==
    /\ wpc = "pre_check"
    /\ wpc' = IF ~is_cancelled THEN "pre_call" ELSE "fair_check"
    /\ UNCHANGED <<config_vars, controller_vars, thread, affected_verts, widx,
                   ret_pre, ret_fair, cancel_event, co, vertices_co,
                   fair_untouched>>

\* Lines 193-198 (mesh) / 412-417 (sculpt): geometry.fair is entered with
\* order POS and the uniform caches.
worker_pre_call ==
    /\ wpc = "pre_call"
    /\ IF affected_verts.tag = "unbound"
       THEN /\ wpc' = "UnboundLocalError"
            /\ UNCHANGED fair_untouched
       ELSE /\ wpc' = "pre_fair"
            /\ fr' = fair_frame(affected_verts.val, 1,
                                VertexWeight_create_cache("UNIFORM"),
                                LoopWeight_create_cache("UNIFORM"))
            /\ gh' = fair_history("pre")
    /\ UNCHANGED <<config_vars, controller_vars, thread, affected_verts, widx,
                   ret_pre, ret_fair, cancel_event, co, vertices_co>>

\* Fault: a pre-fairing pass that succeeded resets the cancel flag.
worker_pre_return_clears_flag ==
    /\ wpc = "pre_fair"
    /\ fr.pc = "returned"
    /\ ret_pre' = IF fr.ret THEN "True" ELSE "False"
    /\ cancel_event' = IF ~fr.ret THEN cancel_by_worker ELSE FALSE
    /\ fr' = IdleFrame
    /\ gh' = IdleHistory
    /\ wpc' = "fair_check"
    /\ UNCHANGED <<config_vars, controller_vars, thread, affected_verts, widx,
                   ret_fair, co, vertices_co>>

\* Fault: a failed pre-fairing pass does not cancel the worker.
worker_pre_return_no_cancel ==
    /\ wpc = "pre_fair"
    /\ fr.pc = "returned"
    /\ ret_pre' = IF fr.ret THEN "True" ELSE "False"
    /\ fr' = IdleFrame
    /\ gh' = IdleHistory
    /\ wpc' = "fair_check"
    /\ UNCHANGED <<config_vars, controller_vars, thread, affected_verts, widx,
                   ret_fair, cancel_event, co, vertices_co>>

\* Lines 194, 199-202 (mesh) / 413, 418-421 (sculpt): the call has
\* returned; on False the worker cancels itself.
worker_pre_return ==
    /\ wpc = "pre_fair"
    /\ fr.pc = "returned"
    /\ ret_pre' = IF fr.ret THEN "True" ELSE "False"
    /\ cancel_event' = IF ~fr.ret THEN cancel_by_worker ELSE cancel_event
    /\ fr' = IdleFrame
    /\ gh' = IdleHistory
    /\ wpc' = "fair_check"
    /\ UNCHANGED <<config_vars, controller_vars, thread, affected_verts, widx,
                   ret_fair, co, vertices_co>>

\* Line 205 (mesh) / 424 (sculpt): the guard of the fairing block.
worker_fair_check ==
    /\ wpc = "fair_check"
    /\ wpc' = IF ~is_cancelled THEN "fair_call" ELSE "update"
    /\ UNCHANGED <<config_vars, controller_vars, thread, affected_verts, widx,
                   ret_pre, ret_fair, cancel_event, co, vertices_co,
                   fair_untouched>>

\* Lines 206-211 (mesh) / 425-430 (sculpt): geometry.fair is entered with
\* the requested order and the Voronoi / cotangent caches.
worker_fair_call ==
    /\ wpc = "fair_call"
    /\ IF affected_verts.tag = "unbound"
       THEN /\ wpc' = "UnboundLocalError"
            /\ UNCHANGED fair_untouched
       ELSE /\ wpc' = "fair_fair"
            /\ fr' = fair_frame(affected_verts.val, continuity,
                                VertexWeight_create_cache("VORONOI"),
                                LoopWeight_create_cache("COTAN"))
            /\ gh' = fair_history("fair")
    /\ UNCHANGED <<config_vars, controller_vars, thread, affected_verts, widx,
                   ret_pre, ret_fair, cancel_event, co, vertices_co>>

\* Fault: a failed requested pass does not cancel the worker.
worker_fair_return_no_cancel ==
    /\ wpc = "fair_fair"
    /\ fr.pc = "returned"
    /\ ret_fair' = IF fr.ret THEN "True" ELSE "False"
    /\ fr' = IdleFrame
    /\ gh' = IdleHistory
    /\ wpc' = "update"
    /\ UNCHANGED <<config_vars, controller_vars, thread, affected_verts, widx,
                   ret_pre, cancel_event, co, vertices_co>>

\* Lines 207, 212-215 (mesh) / 426, 431-434 (sculpt)
worker_fair_return ==
    /\ wpc = "fair_fair"
    /\ fr.pc = "returned"
    /\ ret_fair' = IF fr.ret THEN "True" ELSE "False"
    /\ cancel_event' = IF ~fr.ret THEN cancel_by_worker ELSE cancel_event
    /\ fr' = IdleFrame
    /\ gh' = IdleHistory
    /\ wpc' = "update"
    /\ UNCHANGED <<config_vars, controller_vars, thread, affected_verts, widx,
                   ret_pre, co, vertices_co>>

\* Lines 217-220 (mesh): normal_update and update_edit_mesh, always run.
\* Lines 436-438 (sculpt): the guard of the write-back loop.
worker_update ==
    /\ wpc = "update"
    /\ IF op = "mesh"
       THEN /\ wpc' = "exit"
            /\ widx' = widx
       ELSE /\ wpc' = IF ~is_cancelled THEN "write_back" ELSE "exit"
            /\ widx' = 1
    /\ UNCHANGED <<config_vars, controller_vars, thread, affected_verts,
                   ret_pre, ret_fair, cancel_event, co, vertices_co,
                   fair_untouched>>

\* Lines 440-441 (sculpt): vertices[v.index].co = v.co for one vertex.
worker_write_back ==
    /\ wpc = "write_back"
    /\ widx <= Len(affected_verts.val)
    /\ LET v == affected_verts.val[widx]
       IN  vertices_co' = [vertices_co EXCEPT ![v] = co[v]]
    /\ widx' = widx + 1
    /\ UNCHANGED <<config_vars, controller_vars, thread, wpc, affected_verts,
                   ret_pre, ret_fair, cancel_event, co, fair_untouched>>

worker_write_back_end ==
    /\ wpc = "write_back"
    /\ widx > Len(affected_verts.val)
    /\ wpc' = "exit"
    /\ UNCHANGED <<config_vars, controller_vars, thread, affected_verts, widx,
                   ret_pre, ret_fair, cancel_event, co, vertices_co,
                   fair_untouched>>

\* run() ends (or an exception ended it): the thread is no longer alive.
run_ended ==
    IF wpc \in {"pre_fair", "fair_fair"}
    THEN fr.pc \in {"UnboundLocalError", "Exception"}
    ELSE wpc \in {"exit", "UnboundLocalError"}

worker_exit ==
    /\ run_ended
    /\ thread = "alive"
    /\ thread' = "dead"
    /\ wpc' = "done"
    /\ UNCHANGED <<config_vars, controller_vars, affected_verts, widx,
                   ret_pre, ret_fair, cancel_event, co, vertices_co,
                   fair_untouched>>

run ==
    \/ worker_init
    \/ worker_affected
    \/ worker_empty_check
    \/ worker_triangulate_check
    \/ worker_triangulate
    \/ worker_pre_check
    \/ worker_pre_call
    \/ worker_pre_return
    \/ worker_fair_check
    \/ worker_fair_call
    \/ worker_fair_return
    \/ worker_update
    \/ worker_write_back
    \/ worker_write_back_end
    \/ worker_exit


(***************************************************************************)
(* The controller: register(), and the invoke / modal handlers of          *)
(* MESH_OT_fair_vertices_internal and SCULPT_OT_fair_vertices_internal.    *)
(***************************************************************************)
mesh_untouched == <<co, vertices_co>>

\* __init__.register: linalg.init() selects the backend.
register ==
    /\ ~registered
    /\ registered' = TRUE
    /\ solver' = init_solver(numpy_installed, scipy_installed)
    /\ UNCHANGED <<inputs, controller_vars, worker_vars, cancel_event,
                   mesh_untouched, fair_untouched>>

\* invoke: the sculpt operator refuses dynamic topology; otherwise the
\* modal handler and the timer are installed.
invoke ==
    /\ registered
    /\ op_result = "none"
    /\ IF op = "sculpt" /\ option
       THEN /\ op_result' = "CANCELLED"
            /\ UNCHANGED <<modal_handler, timer>>
       ELSE /\ op_result' = "RUNNING_MODAL"
            /\ modal_handler' = "modal_start"
            /\ timer' = TRUE
    /\ UNCHANGED <<config_vars, cpc, worker_vars, cancel_event,
                   mesh_untouched, fair_untouched>>

\* A modal event can be delivered: the operator is modal and no earlier
\* modal call is still running.
modal_ready == op_result = "RUNNING_MODAL" /\ cpc = "idle"

\* modal_start: the worker thread is created and started.
modal_start ==
    /\ modal_ready
    /\ modal_handler = "modal_start"
    /\ thread' = "alive"
    /\ wpc' = "init"
    /\ modal_handler' = "modal_monitor"
    /\ UNCHANGED <<config_vars, cpc, op_result, timer, affected_verts, widx,
                   ret_pre, ret_fair, cancel_event, mesh_untouched,
                   fair_untouched>>

\* Fault: when the worker has ended, modal_monitor installs modal_start
\* again.
modal_monitor_restarts ==
    /\ modal_ready
    /\ modal_handler = "modal_monitor"
    /\ \E event \in {"TIMER", "ESC"} :
          IF is_alive /\ ~is_cancelled
          THEN /\ cpc' = IF event = "ESC" THEN "cancel" ELSE "idle"
               /\ modal_handler' = modal_handler
          ELSE /\ cpc' = cpc
               /\ modal_handler' = "modal_start"
    /\ UNCHANGED <<config_vars, op_result, timer, worker_vars, cancel_event,
                   mesh_untouched, fair_untouched>>

\* Fault: modal_monitor tests the cancel flag only, not is_alive().
modal_monitor_ignores_thread_end ==
    /\ modal_ready
    /\ modal_handler = "modal_monitor"
    /\ \E event \in {"TIMER", "ESC"} :
          IF ~is_cancelled
          THEN /\ cpc' = IF event = "ESC" THEN "cancel" ELSE "idle"
               /\ modal_handler' = modal_handler
          ELSE /\ cpc' = cpc
               /\ modal_handler' = "modal_finish"
    /\ UNCHANGED <<config_vars, op_result, timer, worker_vars, cancel_event,
                   mesh_untouched, fair_untouched>>

\* modal_monitor up to the call of cancel(): on ESC while the worker is
\* alive and not cancelled, cancel() is called next.
modal_monitor ==
    /\ modal_ready
    /\ modal_handler = "modal_monitor"
    /\ \E event \in {"TIMER", "ESC"} :
          IF is_alive /\ ~is_cancelled
          THEN /\ cpc' = IF event = "ESC" THEN "cancel" ELSE "idle"
               /\ modal_handler' = modal_handler
          ELSE /\ cpc' = cpc
               /\ modal_handler' = "modal_finish"
    /\ UNCHANGED <<config_vars, op_result, timer, worker_vars, cancel_event,
                   mesh_untouched, fair_untouched>>

\* CancellableThread.cancel, line 122: if self.is_alive()
cancel_check ==
    /\ cpc = "cancel"
    /\ cpc' = IF is_alive THEN "cancel_set" ELSE "idle"
    /\ UNCHANGED <<config_vars, modal_handler, op_result, timer, worker_vars,
                   cancel_event, mesh_untouched, fair_untouched>>

\* CancellableThread.cancel, line 123: self._cancel_event.set()
cancel_set ==
    /\ cpc = "cancel_set"
    /\ cpc' = "idle"
    /\ cancel_event' = TRUE
    /\ gh' = IF ~cancel_event /\ fr.pc \notin {"idle", "returned"}
             THEN [gh EXCEPT !.cancel_at = fr.pc] ELSE gh
    /\ UNCHANGED <<config_vars, modal_handler, op_result, timer, worker_vars,
                   mesh_untouched, fr>>

\* modal_finish: the timer is removed and the final result returned.
modal_finish ==
    /\ modal_ready
    /\ modal_handler = "modal_finish"
    /\ timer' = FALSE
    /\ op_result' = IF is_cancelled THEN "CANCELLED" ELSE "FINISHED"
    /\ UNCHANGED <<config_vars, modal_handler, cpc, worker_vars, cancel_event,
                   mesh_untouched, fair_untouched>>

modal ==
    \/ modal_start
    \/ modal_monitor
    \/ cancel_check
    \/ cancel_set
    \/ modal_finish

Next ==
    \/ register
    \/ invoke
    \/ modal
    \/ run
    \/ fair

Spec == Init /\ [][Next]_vars

\* The timer registered by invoke (event_timer_add, 0.1 s) keeps delivering
\* events, so a modal call that a TIMER event can make is eventually made
\* and a modal call that has begun runs to its end; an ESC is never
\* obliged.  The worker is a started thread and is scheduled until run()
\* ends.
timer_event ==
    \/ modal_start
    \/ modal_monitor /\ modal_handler' = "modal_finish"
    \/ modal_finish

modal_call_continues == cancel_check \/ cancel_set

\* Every step of fair() but the call of setup_fairing.
fair_step ==
    \/ fair_setup_check
    \/ fair_solve_check
    \/ fair_solve
    \/ fair_apply_check
    \/ fair_apply_write
    \/ fair_apply_return

\* WF_vars(fair_setup_row), with ENABLED <<fair_setup_row>>_vars written
\* out: the call of setup_fairing is enabled exactly at "setup_row".
setup_row_returns ==
    <>[](fr.pc # "setup_row") \/ []<><<fair_setup_row>>_vars

\* The runs whose termination is checked: those of Spec on a selection
\* without wire vertices (fair leaves a wire vertex out of the system as
\* it does a boundary vertex, line 239).
InitLive ==
    /\ Init
    /\ \A v \in Verts : ~is_wire[v]

LiveSpec ==
    /\ InitLive
    /\ [][Next]_vars
    /\ WF_vars(timer_event)
    /\ WF_vars(modal_call_continues)
    /\ WF_vars(run)
    /\ WF_vars(fair_step)
    /\ setup_row_returns


(***************************************************************************)
(* Direct calls of geometry.fair and geometry.setup_fairing, as a caller   *)
(* outside the operators makes them: without a cancel event and without a  *)
(* status (both default to None), on a mesh whose boundary flags follow    *)
(* from its faces, and with a backend that solves the system exactly       *)
(* (a singular system makes the library raise, which solve() turns into    *)
(* None).  tc is the frame of the call.                                    *)
(***************************************************************************)
MaxRuns == 2

\* Two triangles glued back to back: every edge has two faces.
Pillow == <<<<1, 2, 3>>, <<1, 3, 2>>>>

\* The pillow with its second face flipped: both faces run the same way
\* round, as on a mesh with inconsistent normals.
Flipped == <<<<1, 2, 3>>, <<1, 2, 3>>>>

Meshes == {<<>>, Fan, Pillow, Flipped}

Asc(S) == SelectSeq([v \in Verts |-> v], LAMBDA v : v \in S)

Lists == {Asc(S) : S \in SUBSET Verts} \cup {[k \in 1..NumVerts |-> NumVerts + 1 - k]}

\* Positions with vertex 1 at the average of all the others.
FlatCo ==
    [v \in Verts |->
        IF v = 1 THEN <<RInt(0), RInt(0), RInt(0)>>
        ELSE <<RInt(2 * v - (NumVerts + 2)), RInt(4 * v - 2 * (NumVerts + 2)), RInt(0)>>]

\* Every vertex at one point.
PointCo == [v \in Verts |-> <<RInt(1), RInt(2), RInt(-3)>>]

\* BMVert.is_boundary: the vertex is on an edge that has one face only.
vert_is_boundary(v) == \E e \in link_edges(v) : edge_is_boundary(e)

\* calc_cotangent_loop_weight where the apex angles of the even faces are
\* obtuse (cotangent -1) and those of the odd faces acute (cotangent 1).
calc_cotangent_loop_weight_obtuse(l) ==
    LET apexes == IF edge_is_boundary({loop_vert(l), link_loop_next_vert(l)})
                  THEN 1 ELSE 2
        cot    == IF loop_face(l) % 2 = 0 THEN -1 ELSE 1
    IN  RNorm(apexes * cot, 2)

WeightKinds == {"UNIFORM", "COTAN", "OBTUSE"}

vert_cache(kind) ==
    IF kind = "UNIFORM" THEN VertexWeight_create_cache("UNIFORM")
    ELSE VertexWeight_create_cache("VORONOI")

loop_cache(kind) ==
    CASE kind = "UNIFORM" -> LoopWeight_create_cache("UNIFORM")
      [] kind = "COTAN"   -> LoopWeight_create_cache("COTAN")
      [] kind = "OBTUSE"  -> [l \in Loops |-> calc_cotangent_loop_weight_obtuse(l)]

Multipliers == {RInt(1), RNorm(-1, 2)}

NoRow == [v |-> 0, i |-> 0, m |-> RInt(0), k |-> 0, A0 |-> <<>>, b0 |-> <<>>]

NewCall(verts, order, kind, pos) ==
    [pc |-> "ready", verts |-> verts, order |-> order, kind |-> kind,
     vert_weights |-> vert_cache(kind), loop_weights |-> loop_cache(kind),
     vert_col_map |-> build_vert_col_map(verts), items |-> dict_items(verts),
     A |-> <<>>, b |-> <<>>, rowi |-> 1, x |-> Unbound, ret |-> FALSE,
     runs |-> 0, co0 |-> pos, co1 |-> pos, row |-> NoRow]

\* Lines 241-242: A = dict(), b = n rows of three zeros.
EmptySystem(n) ==
    [A |-> <<>>, b |-> [j \in 0..(n - 1) |-> [c \in 1..3 |-> RInt(0)]]]

\* The coefficient A[i, j]; a key that is absent stands for zero.
Entry(A, i, j) == IF <<i, j>> \in DOMAIN A THEN A[<<i, j>>] ELSE RInt(0)

\* The determinant of the rows r.. of the dense matrix M over the columns
\* cols, by expansion along row r.
RECURSIVE Det(_, _, _)
RECURSIVE DetTerms(_, _, _, _)
Det(M, r, cols) == IF Len(cols) = 0 THEN RInt(1) ELSE DetTerms(M, r, cols, 1)

DetTerms(M, r, cols, k) ==
    IF k > Len(cols) THEN RInt(0)
    ELSE LET rest == SubSeq(cols, 1, k - 1) \o SubSeq(cols, k + 1, Len(cols))
             term == IF M[<<r, cols[k]>>] = RInt(0) THEN RInt(0)
                     ELSE RMul(M[<<r, cols[k]>>], Det(M, r + 1, rest))
         IN  RAdd(IF k % 2 = 1 THEN term ELSE RNeg(term),
                  DetTerms(M, r, cols, k + 1))

\* x = solve(A, b) in exact arithmetic (Cramer's rule): None when A is
\* singular.
solve_exactly(A, b) ==
    LET n       == Cardinality(DOMAIN b)
        idx     == 0..(n - 1)
        cols    == [k \in 1..n |-> k - 1]
        M       == [key \in idx \X idx |-> Entry(A, key[1], key[2])]
        d       == Det(M, 0, cols)
        Mj(j, c) == [key \in idx \X idx |->
                        IF key[2] = j THEN b[key[1]][c] ELSE M[key]]
    IN  IF d = RInt(0) THEN None
        ELSE Array([j \in idx |-> [c \in 1..3 |-> RDiv(Det(Mj(j, c), 0, cols), d)]])

\* What a direct call leaves alone.
operator_vars ==
    <<numpy_installed, scipy_installed, solver, registered, op, continuity,
      option, is_boundary, is_wire, select, controller_vars, worker_vars,
      cancel_event, vertices_co, fr, gh, faces, wc, th, nb>>

InitDirect ==
    /\ numpy_installed = TRUE
    /\ scipy_installed = FALSE
    /\ solver = "NumPySolver"
    /\ registered = TRUE
    /\ op = "mesh"
    /\ continuity = 1
    /\ option = FALSE
    /\ select = [v \in Verts |-> FALSE]
    /\ faces \in Meshes
    /\ is_boundary = [v \in Verts |-> vert_is_boundary(v)]
    /\ is_wire = [v \in Verts |-> FALSE]
    /\ co \in {InitCo, FlatCo, PointCo}
    /\ vertices_co = co
    /\ modal_handler = "none"
    /\ cpc = "idle"
    /\ op_result = "none"
    /\ timer = FALSE
    /\ thread = "unstarted"
    /\ cancel_event = FALSE
    /\ wpc = "unstarted"
    /\ affected_verts = Unbound
    /\ widx = 0
    /\ ret_pre = "none"
    /\ ret_fair = "none"
    /\ fr = IdleFrame
    /\ gh = IdleHistory
    /\ wc = IdleCache
    /\ th = IdleStatus
    /\ nb = IdleSearch
    /\ \E verts \in Lists, order \in 1..3, kind \in WeightKinds :
          tc = NewCall(verts, order, kind, co)

\* fair, lines 238-242: the column map, the empty A and the zero b.
call_fair ==
    /\ tc.pc = "ready"
    /\ LET S == EmptySystem(Len(tc.items))
       IN  tc' = [tc EXCEPT !.pc = IF Len(tc.items) = 0 THEN "solve" ELSE "setup",
                            !.A = S.A, !.b = S.b, !.rowi = 1, !.x = Unbound]
    /\ UNCHANGED <<operator_vars, co>>

\* fair, lines 243-248 without a cancel event: setup_fairing for one item.
call_fair_setup_row ==
    /\ tc.pc = "setup"
    /\ LET S == setup_fairing(tc.items[tc.rowi][1], tc.items[tc.rowi][2],
                              [A |-> tc.A, b |-> tc.b], RInt(1), tc.order,
                              tc.vert_col_map, tc.vert_weights,
                              tc.loop_weights, co)
       IN  tc' = [tc EXCEPT !.pc = IF tc.rowi = Len(tc.items) THEN "solve"
                                   ELSE "setup",
                            !.A = S.A, !.b = S.b, !.rowi = @ + 1]
    /\ UNCHANGED <<operator_vars, co>>

\* setup_fairing(v, i, A, b, m, k, ...) called on its own: with any k on
\* the empty system, and with k = 0 on the assembled one, where the keys
\* are present.
call_setup_fairing ==
    /\ tc.runs = 0
    /\ \/ tc.pc = "setup" /\ tc.rowi = 1
       \/ tc.pc = "solve"
    /\ \E v \in Verts, i \in 0..(Len(tc.items) - 1), m \in Multipliers,
          k \in 0..(IF tc.pc = "solve" THEN 0 ELSE tc.order) :
          LET S1 == setup_fairing(v, i, [A |-> tc.A, b |-> tc.b], m, k,
                                  tc.vert_col_map, tc.vert_weights,
                                  tc.loop_weights, co)
          IN  tc' = [tc EXCEPT !.pc = "row_returned", !.A = S1.A, !.b = S1.b,
                               !.row = [v |-> v, i |-> i, m |-> m, k |-> k,
                                        A0 |-> tc.A, b0 |-> tc.b]]
    /\ UNCHANGED <<operator_vars, co>>

\* fair, lines 250-254: x = linalg.solver.solve(A, b)
call_fair_solve ==
    /\ tc.pc = "solve"
    /\ tc' = [tc EXCEPT !.pc = "apply", !.x = solve_exactly(tc.A, tc.b)]
    /\ UNCHANGED <<operator_vars, co>>

\* fair, lines 256-265: the positions are written and True is returned, or
\* False is returned.
call_fair_apply ==
    /\ tc.pc = "apply"
    /\ co' = IF tc.x.tag = "array"
             THEN [v \in Verts |-> IF v \in DOMAIN tc.vert_col_map
                                   THEN tc.x.val[tc.vert_col_map[v]] ELSE co[v]]
             ELSE co
    /\ tc' = [tc EXCEPT !.pc = "returned", !.ret = (tc.x.tag = "array"),
                        !.runs = @ + 1,
                        !.co1 = IF tc.runs = 0 THEN co' ELSE @]
    /\ UNCHANGED operator_vars

\* The caller calls fair once more with the same arguments.
call_fair_again ==
    /\ tc.pc = "returned"
    /\ tc.runs < MaxRuns
    /\ tc' = [tc EXCEPT !.pc = "ready"]
    /\ UNCHANGED <<operator_vars, co>>

NextDirect ==
    \/ call_fair
    \/ call_fair_setup_row
    \/ call_setup_fairing
    \/ call_fair_solve
    \/ call_fair_apply
    \/ call_fair_again

DirectSpec == InitDirect /\ [][NextDirect]_vars


(***************************************************************************)
(* types.Cache: a dict that calculates the value of a key that is not     *)
(* present.  wc.store is the dict, wc.evals counts the calls of _calc for  *)
(* every key, wc.lookups the lookups, wc.ret is what the last lookup        *)
(* returned.  What _calc returns is the weight function's business: any    *)
(* of the values of Weights, not necessarily the same one from call to     *)
(* call, or an exception, which the lookup does not catch.                 *)
(***************************************************************************)
MaxLookups == 4

Weights == {RNorm(1, 2), RInt(1)}

NoValue == [key |-> 0, val |-> RInt(0), via |-> "none"]

\* Cache.__init__ (lines 65-75) with a caching function and no items.
NewCache ==
    [pc |-> "open", store |-> <<>>, evals |-> [k \in Verts |-> 0],
     lookups |-> [k \in Verts |-> 0], ret |-> NoValue, n |-> 0]

\* What a lookup leaves alone.
cache_unchanged ==
    <<numpy_installed, scipy_installed, solver, registered, op, continuity,
      option, is_boundary, is_wire, select, controller_vars, worker_vars,
      cancel_event, vertices_co, fr, gh, faces, tc, th, nb>>

\* Line 84 without the test: the value is calculated at every lookup.
Cache_missing_always(key) == TRUE

\* Line 84: 'if key not in self'.
Cache_missing(key) == key \notin DOMAIN wc.store

\* Lines 84-86: self[key] = self._calc(key) when the key is missing, then
\* the stored value is returned; an exception of _calc leaves the lookup.
Cache_lookup(key, via) ==
    /\ wc.pc = "open"
    /\ wc.n < MaxLookups
    /\ IF Cache_missing(key)
       THEN \/ \E w \in Weights :
                 wc' = [wc EXCEPT !.store = (key :> w) @@ @,
                                  !.evals[key] = @ + 1,
                                  !.lookups[key] = @ + 1,
                                  !.ret = [key |-> key, val |-> w, via |-> via],
                                  !.n = @ + 1]
            \/ wc' = [wc EXCEPT !.pc = "raised",
                                !.evals[key] = @ + 1,
                                !.lookups[key] = @ + 1,
                                !.ret = NoValue,
                                !.n = @ + 1]
       ELSE wc' = [wc EXCEPT !.lookups[key] = @ + 1,
                             !.ret = [key |-> key, val |-> wc.store[key],
                                      via |-> via],
                             !.n = @ + 1]
    /\ UNCHANGED <<cache_unchanged, co>>

\* cache[key]
Cache___getitem__ == \E key \in Verts : Cache_lookup(key, "getitem")

\* cache.get(key), lines 88-95: return self[key]
Cache_get == \E key \in Verts : Cache_lookup(key, "get")

InitCache ==
    /\ numpy_installed = TRUE
    /\ scipy_installed = FALSE
    /\ solver = "NumPySolver"
    /\ registered = TRUE
    /\ op = "mesh"
    /\ continuity = 1
    /\ option = FALSE
    /\ select = [v \in Verts |-> FALSE]
    /\ faces = Fan
    /\ is_boundary = [v \in Verts |-> vert_is_boundary(v)]
    /\ is_wire = [v \in Verts |-> FALSE]
    /\ co = InitCo
    /\ vertices_co = InitCo
    /\ modal_handler = "none"
    /\ cpc = "idle"
    /\ op_result = "none"
    /\ timer = FALSE
    /\ thread = "unstarted"
    /\ cancel_event = FALSE
    /\ wpc = "unstarted"
    /\ affected_verts = Unbound
    /\ widx = 0
    /\ ret_pre = "none"
    /\ ret_fair = "none"
    /\ fr = IdleFrame
    /\ gh = IdleHistory
    /\ tc = IdleCall
    /\ wc = NewCache
    /\ th = IdleStatus
    /\ nb = IdleSearch

NextCache ==
    \/ Cache___getitem__
    \/ Cache_get

CacheSpec == InitCache /\ [][NextCache]_vars


(***************************************************************************)
(* The status message of a CancellableThread: set_status, called by the    *)
(* worker in run(), and get_status, called by the controller in            *)
(* modal_monitor.  Each reads or writes _status_fmt and _status_args as    *)
(* two statements, and the other thread can run in between.  A format      *)
(* string is the sequence of its pieces, Hole being a replacement field;   *)
(* the empty string is the empty sequence.  th is the thread and a reader. *)
(***************************************************************************)
Hole == "{}"

\* The set_status calls of WorkerThread.run in the order of the code
\* (operators.py lines 165, 170, 175, 193, 206 and 218).
StatusCalls ==
    <<[fmt |-> <<"Initializing BMesh">>, args |-> <<>>],
      [fmt |-> <<"Determining which vertices are affected">>, args |-> <<>>],
      [fmt |-> <<"Triangulating involved faces">>, args |-> <<>>],
      [fmt |-> <<"[Pre-Fairing] ", Hole>>, args |-> <<"fairing_status">>],
      [fmt |-> <<"[Fairing] ", Hole>>, args |-> <<"fairing_status">>],
      [fmt |-> <<"Updating the mesh">>, args |-> <<>>]>>

\* The values fair() gives to its status Property (geometry.py 246, 253,
\* 260); a new Property holds None.
FairingStatuses ==
    {"Setting up linear system (100%)", "Solving linear system",
     "Applying results"}

\* The condition under which run() makes its i-th set_status call.
StatusGuard(i) ==
    CASE i = 1 -> TRUE
      [] i = 2 -> ~th.cancelled
      [] i = 3 -> ~th.cancelled /\ th.triangulate
      [] i = 4 -> ~th.cancelled
      [] i = 5 -> ~th.cancelled
      [] i = 6 -> TRUE

NewThread(triangulate) ==
    [pc |-> "open", fmt |-> <<>>, args |-> <<>>, value |-> "None",
     next |-> 1, half |-> FALSE, last |-> 0, cancelled |-> FALSE,
     triangulate |-> triangulate, rpc |-> "idle", rfmt |-> <<>>,
     rargs |-> <<>>, result |-> Unbound]

status_unchanged ==
    <<numpy_installed, scipy_installed, solver, registered, op, continuity,
      option, is_boundary, is_wire, select, controller_vars, worker_vars,
      cancel_event, co, vertices_co, fr, gh, faces, tc, wc, nb>>

\* Property.__format__: format(self._value, format_spec).
Property___format__(value) == value

\* str.format: every replacement field takes the next positional
\* argument; a field without an argument raises IndexError, arguments
\* left over are ignored.
RECURSIVE str_format_from(_, _, _, _, _, _)
str_format_from(fmt, args, value, k, n, acc) ==
    IF k > Len(fmt) THEN [tag |-> "str", val |-> acc]
    ELSE IF fmt[k] = Hole
    THEN IF n > Len(args) THEN Raised
         ELSE str_format_from(fmt, args, value, k + 1, n + 1,
                              Append(acc, Property___format__(value)))
    ELSE str_format_from(fmt, args, value, k + 1, n, Append(acc, fmt[k]))

str_format(fmt, args, value) == str_format_from(fmt, args, value, 1, 1, <<>>)

\* get_status without its try: the failure leaves the method.
get_status_except_missing(outcome) == outcome

\* Lines 141-146: status = '' unless the formatting succeeded.
get_status_except(outcome) ==
    IF outcome.tag = "raised" THEN [tag |-> "str", val |-> <<>>] ELSE outcome

\* Line 156: self._status_fmt = fmt
set_status_fmt ==
    /\ th.pc = "open"
    /\ th.next <= Len(StatusCalls)
    /\ ~th.half
    /\ StatusGuard(th.next)
    /\ th' = [th EXCEPT !.fmt = StatusCalls[th.next].fmt, !.half = TRUE]
    /\ UNCHANGED status_unchanged

\* Line 157: self._status_args = args
set_status_args ==
    /\ th.pc = "open"
    /\ th.half
    /\ th' = [th EXCEPT !.args = StatusCalls[th.next].args, !.half = FALSE,
                        !.last = th.next, !.next = @ + 1]
    /\ UNCHANGED status_unchanged

\* The condition of a set_status call is false: run() goes on to the next.
set_status_skipped ==
    /\ th.pc = "open"
    /\ th.next <= Len(StatusCalls)
    /\ ~th.half
    /\ ~StatusGuard(th.next)
    /\ th' = [th EXCEPT !.next = @ + 1]
    /\ UNCHANGED status_unchanged

\* Property.set, called by fair() while a fairing call runs.
Property_set ==
    /\ th.pc = "open"
    /\ th.last \in {4, 5}
    /\ th.next = th.last + 1
    /\ ~th.half
    /\ \E value \in FairingStatuses :
          /\ value # th.value
          /\ th' = [th EXCEPT !.value = value]
    /\ UNCHANGED status_unchanged

\* The cancel flag is set while run() has not ended.
status_cancel ==
    /\ th.pc = "open"
    /\ th.next <= Len(StatusCalls)
    /\ ~th.cancelled
    /\ th' = [th EXCEPT !.cancelled = TRUE]
    /\ UNCHANGED status_unchanged

\* Line 143, first read: self._status_fmt
get_status_fmt ==
    /\ th.pc = "open"
    /\ th.rpc \in {"idle", "returned"}
    /\ th' = [th EXCEPT !.rpc = "fmt_read", !.rfmt = th.fmt]
    /\ UNCHANGED status_unchanged

\* Line 143, second read: self._status_args
get_status_args ==
    /\ th.pc = "open"
    /\ th.rpc = "fmt_read"
    /\ th' = [th EXCEPT !.rpc = "args_read", !.rargs = th.args]
    /\ UNCHANGED status_unchanged

\* Lines 143-146: the call of format, the except clause, the return.
get_status_return ==
    /\ th.pc = "open"
    /\ th.rpc = "args_read"
    /\ th' = [th EXCEPT !.rpc = "returned",
                        !.result = get_status_except(
                                       str_format(th.rfmt, th.rargs, th.value))]
    /\ UNCHANGED status_unchanged

InitStatus ==
    /\ numpy_installed = TRUE
    /\ scipy_installed = FALSE
    /\ solver = "NumPySolver"
    /\ registered = TRUE
    /\ op = "mesh"
    /\ continuity = 1
    /\ option \in BOOLEAN
    /\ select = [v \in Verts |-> FALSE]
    /\ faces = Fan
    /\ is_boundary = [v \in Verts |-> vert_is_boundary(v)]
    /\ is_wire = [v \in Verts |-> FALSE]
    /\ co = InitCo
    /\ vertices_co = InitCo
    /\ modal_handler = "none"
    /\ cpc = "idle"
    /\ op_result = "none"
    /\ timer = FALSE
    /\ thread = "unstarted"
    /\ cancel_event = FALSE
    /\ wpc = "unstarted"
    /\ affected_verts = Unbound
    /\ widx = 0
    /\ ret_pre = "none"
    /\ ret_fair = "none"
    /\ fr = IdleFrame
    /\ gh = IdleHistory
    /\ tc = IdleCall
    /\ wc = IdleCache
    /\ nb = IdleSearch
    /\ th = NewThread(option)

NextStatus ==
    \/ set_status_fmt
    \/ set_status_args
    \/ set_status_skipped
    \/ Property_set
    \/ status_cancel
    \/ get_status_fmt
    \/ get_status_args
    \/ get_status_return

StatusSpec == InitStatus /\ [][NextStatus]_vars


(***************************************************************************)
(* geometry.get_closed_neighborhood, called on a vertex of a mesh.  nb is  *)
(* the frame of the call: v, dist, and the locals visited and              *)
(* traversal_queue (its right end, where pop() takes, is the head of the   *)
(* sequence).  A local that was never assigned is Unbound.                 *)
(***************************************************************************)
MaxDist == 3

\* A strip of triangles: its end vertices are more than one edge apart.
Strip == [f \in 1..NumVerts |-> <<f, f + 1, f + 2>>]

StripVerts == 1..(NumVerts + 2)

\* A local that holds a set.
SetOf(S) == [tag |-> "set", val |-> S]

NewSearch(v, dist) ==
    [pc |-> "called", v |-> v, dist |-> dist, visited |-> Unbound,
     visisted |-> Unbound, traversal_queue |-> <<>>, ret |-> Unbound]

search_unchanged ==
    <<numpy_installed, scipy_installed, solver, registered, op, continuity,
      option, is_boundary, is_wire, select, controller_vars, worker_vars,
      cancel_event, co, vertices_co, fr, gh, faces, tc, wc, th>>

\* e.other_vert(v)
other_vert(e, v) == CHOOSE u \in e : u # v

\* Lines 366-369: the for loop, the edges taken by ascending other vertex.
RECURSIVE enqueue_neighbours(_, _, _, _, _)
enqueue_neighbours(es, v_curr, visited, dist_next, queue) ==
    IF es = {} THEN queue
    ELSE LET e      == CHOOSE x \in es :
                           \A y \in es : other_vert(x, v_curr) <= other_vert(y, v_curr)
             v_next == other_vert(e, v_curr)
         IN  enqueue_neighbours(es \ {e}, v_curr, visited, dist_next,
                                IF v_next \notin visited
                                THEN Append(queue, <<v_next, dist_next>>)
                                ELSE queue)

\* The assignment of line 356 with the name the return statement reads.
neighborhood_branch_visited ==
    /\ nb.pc = "called"
    /\ nb' = IF nb.dist <= 0
             THEN [nb EXCEPT !.pc = "return", !.visited = SetOf({nb.v})]
             ELSE [nb EXCEPT !.pc = "while", !.visited = SetOf({}),
                             !.traversal_queue = <<<<nb.v, 0>>>>]
    /\ UNCHANGED search_unchanged

\* Lines 355-360: 'visisted = {v}' when dist <= 0, else the empty set and
\* the queue holding (v, 0).
neighborhood_branch ==
    /\ nb.pc = "called"
    /\ nb' = IF nb.dist <= 0
             THEN [nb EXCEPT !.pc = "return", !.visisted = SetOf({nb.v})]
             ELSE [nb EXCEPT !.pc = "while", !.visited = SetOf({}),
                             !.traversal_queue = <<<<nb.v, 0>>>>]
    /\ UNCHANGED search_unchanged

\* Lines 361-369: one iteration of the while loop.
neighborhood_iteration ==
    /\ nb.pc = "while"
    /\ Len(nb.traversal_queue) > 0
    /\ LET v_curr    == Head(nb.traversal_queue)[1]
           dist_curr == Head(nb.traversal_queue)[2]
           visited   == nb.visited.val \cup {v_curr}
           rest      == Tail(nb.traversal_queue)
       IN  nb' = [nb EXCEPT !.visited = SetOf(visited),
                            !.traversal_queue =
                                IF dist_curr < nb.dist
                                THEN enqueue_neighbours(link_edges(v_curr), v_curr,
                                                        visited, dist_curr + 1, rest)
                                ELSE rest]
    /\ UNCHANGED search_unchanged

\* Line 361: the queue is empty, the loop ends.
neighborhood_loop_end ==
    /\ nb.pc = "while"
    /\ Len(nb.traversal_queue) = 0
    /\ nb' = [nb EXCEPT !.pc = "return"]
    /\ UNCHANGED search_unchanged

\* Line 370: return visited; reading the local while it is unassigned
\* raises UnboundLocalError.
neighborhood_return ==
    /\ nb.pc = "return"
    /\ nb' = IF nb.visited.tag = "unbound"
             THEN [nb EXCEPT !.pc = "UnboundLocalError"]
             ELSE [nb EXCEPT !.pc = "returned", !.ret = nb.visited]
    /\ UNCHANGED search_unchanged

get_closed_neighborhood ==
    \/ neighborhood_branch
    \/ neighborhood_iteration
    \/ neighborhood_loop_end
    \/ neighborhood_return

InitSearch ==
    /\ numpy_installed = TRUE
    /\ scipy_installed = FALSE
    /\ solver = "NumPySolver"
    /\ registered = TRUE
    /\ op = "mesh"
    /\ continuity = 1
    /\ option = FALSE
    /\ select = [v \in Verts |-> FALSE]
    /\ faces \in {<<>>, Fan, Strip}
    /\ is_boundary = [v \in Verts |-> vert_is_boundary(v)]
    /\ is_wire = [v \in Verts |-> FALSE]
    /\ co = InitCo
    /\ vertices_co = InitCo
    /\ modal_handler = "none"
    /\ cpc = "idle"
    /\ op_result = "none"
    /\ timer = FALSE
    /\ thread = "unstarted"
    /\ cancel_event = FALSE
    /\ wpc = "unstarted"
    /\ affected_verts = Unbound
    /\ widx = 0
    /\ ret_pre = "none"
    /\ ret_fair = "none"
    /\ fr = IdleFrame
    /\ gh = IdleHistory
    /\ tc = IdleCall
    /\ wc = IdleCache
    /\ th = IdleStatus
    /\ \E v \in StripVerts, dist \in -1..MaxDist : nb = NewSearch(v, dist)

NextSearch == get_closed_neighborhood

SearchSpec == InitSearch /\ [][NextSearch]_vars


(***************************************************************************)
(* Vocabulary of the claims.                                               *)
(***************************************************************************)
FairRunning == fr.pc \notin {"idle", "returned"}

FairReturned == fr.pc = "returned"

ColVerts == DOMAIN fr.vert_col_map

NothingWritten == gh.written = {} /\ co = gh.entry_co

AllWritten ==
    /\ gh.solved.tag = "array"
    /\ gh.written = ColVerts
    /\ \A v \in ColVerts : co[v] = gh.solved.val[fr.vert_col_map[v]]

WorkerEnded == wpc = "done"

FinalResult == op_result \in {"FINISHED", "CANCELLED"}

(***************************************************************************)
(* C1: when fair returns, either it returns True and every vertex of the   *)
(* column map holds its solved position, or it returns False and no        *)
(* position was written at all; it never returns with only some of the     *)
(* interior vertices updated, whenever the cancel flag was set.            *)
(***************************************************************************)
C1_NoPartialMutation ==
    FairReturned =>
        IF fr.ret THEN AllWritten ELSE NothingWritten

\* A call over two or more interior vertices returned True although the
\* flag was set while the apply loop ran.
C1_Witness ==
    /\ FairReturned
    /\ fr.ret
    /\ Cardinality(ColVerts) >= 2
    /\ gh.cancel_at = "apply"

(***************************************************************************)
(* C2: whenever the worker ends with its cancel flag set (the operator     *)
(* result is CANCELLED), every vertex position of the mesh equals its      *)
(* value before the action started.                                        *)
(***************************************************************************)
C2_CancelledLeavesMeshUntouched ==
    (WorkerEnded /\ cancel_event) => MeshCo = InitCo

(***************************************************************************)
(* C3: the requested-order call to fair (the selected order, Voronoi and   *)
(* cotangent caches) is made only after the pre-fairing call (order 1,     *)
(* uniform caches) returned True, and its block is entered only at a       *)
(* guard that found the cancel flag unset; after a pre-fairing call that   *)
(* returned False the second call is never made.                           *)
(***************************************************************************)
InRequestedBlock == wpc \in {"fair_call", "fair_fair"}

C3_State ==
    /\ InRequestedBlock => ret_pre = "True"
    /\ ret_fair # "none" => ret_pre = "True"
    /\ ret_pre = "False" => cancel_event /\ ~InRequestedBlock /\ ret_fair = "none"
    /\ gh.pass = "pre" =>
          /\ fr.order = 1
          /\ fr.vert_weights = VertexWeight_create_cache("UNIFORM")
          /\ fr.loop_weights = LoopWeight_create_cache("UNIFORM")
    /\ gh.pass = "fair" =>
          /\ ret_pre = "True"
          /\ fr.order = continuity
          /\ fr.vert_weights = VertexWeight_create_cache("VORONOI")
          /\ fr.loop_weights = LoopWeight_create_cache("COTAN")

C3_Step ==
    (~InRequestedBlock /\ InRequestedBlock') =>
        (ret_pre = "True" /\ ~cancel_event)

C4_CancelledBeforeCall ==
    (gh.entry_cancel /\ fr.pc # "idle") =>
        /\ gh.n_setup = 0
        /\ gh.rows = {}
        /\ DOMAIN fr.A = {}
        /\ gh.n_solve = 0
        /\ NothingWritten
        /\ fr.pc \notin {"setup_row", "solve", "apply"}
        /\ FairReturned => ~fr.ret

\* A call over interior vertices entered with the flag set has returned.
C4_Witness ==
    /\ gh.entry_cancel
    /\ FairReturned
    /\ Cardinality(ColVerts) >= 1

(***************************************************************************)
(* C5: with the solver port bound to NullSolver, fair returns False and    *)
(* writes no vertex position, for every vertex list (also an empty one,    *)
(* or one without interior vertex), every order and every cancel timing.   *)
(***************************************************************************)
C5_NullSolverNeverMutates ==
    (solver = "NullSolver" /\ fr.pc # "idle") =>
        /\ NothingWritten
        /\ fr.pc # "apply"
        /\ FairReturned => ~fr.ret

\* The null backend was invoked on a list without interior vertex, and the
\* call returned.
C5_Witness ==
    /\ solver = "NullSolver"
    /\ FairReturned
    /\ gh.n_solve = 1
    /\ Cardinality(ColVerts) = 0

(***************************************************************************)
(* C6: for an input list without interior vertex and with the cancel flag  *)
(* unset, fair returns True and performs zero position writes, whichever   *)
(* solver backend is selected.                                             *)
(***************************************************************************)
EmptyInteriorReturned ==
    /\ FairReturned
    /\ Cardinality(ColVerts) = 0
    /\ gh.chk_solve = "unset"
    /\ gh.chk_apply = "unset"

C7_TrueIffSolvedAndNotCancelled ==
    FairReturned =>
        /\ fr.ret <=> (/\ gh.n_solve = 1
                       /\ gh.solved.tag = "array"
                       /\ gh.chk_apply = "unset")
        /\ ~fr.ret => NothingWritten

\* The solver returned a solution over interior vertices, the flag was set
\* during the solve, and the call returned False.
C7_Witness ==
    /\ FairReturned
    /\ ~fr.ret
    /\ gh.n_solve = 1
    /\ gh.solved.tag = "array"
    /\ Cardinality(ColVerts) >= 1
    /\ gh.chk_apply = "set"

(***************************************************************************)
(* C8: fair reads the cancel flag only at the head of each setup-loop      *)
(* iteration, once before the solve and once before the apply.  With the   *)
(* flag set it starts no row assembly, no solve and no apply; a row        *)
(* assembly, a solve or an apply loop that has started runs to its end     *)
(* whatever the flag becomes.                                              *)
(***************************************************************************)
C8_Step ==
    /\ (fr.pc = "setup_loop" /\ fr'.pc = "setup_row") => ~cancel_event
    /\ (fr.pc = "setup_loop" /\ fr'.pc = "solve") => ~cancel_event
    /\ (fr.pc = "apply_check" /\ fr'.pc = "apply") => ~cancel_event
    /\ (fr.pc = "setup_row" /\ fr' # fr) =>
          /\ fr'.pc = "setup_loop"
          /\ fr'.row = fr.row + 1
          /\ gh'.rows = gh.rows \cup {fr.items[fr.row][2]}
    /\ (fr.pc = "solve" /\ fr' # fr) =>
          /\ fr'.pc = "apply_check"
          /\ fr'.x.tag # "unbound"
          /\ gh'.n_solve = gh.n_solve + 1
    /\ (fr.pc = "apply" /\ fr' # fr) =>
          IF fr.aidx <= Len(fr.items)
          THEN /\ fr'.pc = "apply"
               /\ fr'.aidx = fr.aidx + 1
               /\ gh'.written = gh.written \cup {fr.items[fr.aidx][1]}
          ELSE /\ fr'.pc = "returned"
               /\ fr'.ret
    /\ (gh.chk_solve # "none" /\ fr'.pc # "idle") => gh'.chk_solve = gh.chk_solve
    /\ (gh.chk_apply # "none" /\ fr'.pc # "idle") => gh'.chk_apply = gh.chk_apply

C8_CheckpointsOnly == [][C8_Step]_vars

\* The flag was set while a row was being assembled: that row was
\* completed, and nothing was solved afterwards.
C8_Witness ==
    /\ FairReturned
    /\ gh.cancel_at = "setup_row"
    /\ gh.n_setup >= 1
    /\ gh.n_solve = 0

(***************************************************************************)
(* C9: the modal operator returns its final result (FINISHED or CANCELLED, *)
(* from modal_finish) only when the worker thread is no longer running.    *)
(***************************************************************************)
C9_ResultOnlyAfterWorkerEnded ==
    (FinalResult /\ modal_handler = "modal_finish") => ~is_alive

(***************************************************************************)
(* C10: within one fair invocation the phases run once and in the order    *)
(* Setup, Solve, Apply: the solver is invoked at most once and only after  *)
(* the setup loop has ended, no row is assembled after the solve,          *)
(* positions are written only after the solver returned a solution in      *)
(* this invocation, the solution variable is never read unassigned, the    *)
(* status texts appear only in the order setting up, solving, applying,    *)
(* and the call ends with True or with False.                              *)
(***************************************************************************)
StatusRank(text) ==
    CASE text = "Setting up linear system" -> 1
      [] text = "Solving linear system"    -> 2
      [] text = "Applying results"         -> 3

StatusInOrder(log) ==
    /\ \A i, j \in 1..Len(log) : i < j => StatusRank(log[i]) <= StatusRank(log[j])
    /\ \A i, j \in 1..Len(log) :
          (i # j /\ log[i] = log[j]) => StatusRank(log[i]) = 1
    /\ \A j \in 1..Len(log) :
          StatusRank(log[j]) = 3 => \E i \in 1..Len(log) : StatusRank(log[i]) = 2

C10_PhaseOrder ==
    fr.pc # "idle" =>
        /\ fr.pc # "UnboundLocalError"
        /\ gh.n_solve <= 1
        /\ fr.pc = "solve" => fr.row > Len(fr.items)
        /\ (gh.n_solve = 1 \/ gh.chk_solve # "none") =>
              fr.pc \notin {"setup_loop", "setup_row"}
        /\ (gh.written # {} \/ fr.pc = "apply") =>
              (gh.n_solve = 1 /\ gh.solved.tag = "array" /\ fr.x = gh.solved)
        /\ gh.n_setup = Cardinality(gh.rows)
        /\ StatusInOrder(gh.status_log)
        /\ FairReturned =>
              /\ fr.ret \in BOOLEAN
              /\ fr.ret <=> (\E i \in 1..Len(gh.status_log) :
                                gh.status_log[i] = "Applying results")

\* A call over one interior vertex went through the three phases.
C10_Witness ==
    /\ FairReturned
    /\ fr.ret
    /\ gh.status_log = <<"Setting up linear system", "Solving linear system",
                         "Applying results">>


(***************************************************************************)
(* C11: once the cancel flag of a worker is set, by the controller's ESC   *)
(* handling or by the worker itself after a failed pass, it stays set for  *)
(* the rest of the worker's life, across both fair passes: no step of      *)
(* fair, of CancellableThread or of the operators clears it.               *)
(***************************************************************************)
C11_FlagNeverCleared == [][cancel_event => cancel_event']_vars

\* The flag was set after the pre-fairing pass had succeeded, and is still
\* set when the worker has ended.
C11_Witness ==
    /\ cancel_event
    /\ WorkerEnded
    /\ ret_pre = "True"
    /\ ret_fair = "none"

(***************************************************************************)
(* C12: the column map of a fair call is a bijection from the interior     *)
(* vertices of the input list (not boundary, not wire) onto the dense      *)
(* indices 0..n-1, n the number of interior vertices, assigned in input    *)
(* order; boundary and wire vertices get no column; the map is not         *)
(* modified after it is built.                                             *)
(***************************************************************************)
C12_State ==
    fr.pc # "idle" =>
        LET m        == fr.vert_col_map
            place(v) == CHOOSE k \in 1..Len(fr.verts) : fr.verts[k] = v
            interior == {v \in {fr.verts[k] : k \in 1..Len(fr.verts)} :
                            ~is_boundary[v] /\ ~is_wire[v]}
            n        == Cardinality(interior)
        IN  /\ DOMAIN m = interior
            /\ {m[v] : v \in interior} = 0..(n - 1)
            /\ \A u, v \in interior : m[u] = m[v] => u = v
            /\ \A u, v \in interior : place(u) < place(v) => m[u] < m[v]
            /\ \A k \in 1..Len(fr.items) :
                  fr.items[k][1] \in interior /\ fr.items[k][2] = k - 1

C12_Step ==
    (fr.pc # "idle" /\ fr'.pc # "idle") =>
        (fr'.vert_col_map = fr.vert_col_map /\ fr'.items = fr.items)

C13_SystemIsSquare ==
    fr.pc # "idle" =>
        LET n == Cardinality(DOMAIN fr.vert_col_map)
        IN  /\ DOMAIN fr.b = 0..(n - 1)
            /\ \A j \in DOMAIN fr.b : DOMAIN fr.b[j] = 1..3
            /\ \A key \in DOMAIN fr.A :
                  key[1] \in 0..(n - 1) /\ key[2] \in 0..(n - 1)
            /\ gh.rows \subseteq 0..(n - 1)
            /\ fr.pc = "setup_row" => fr.items[fr.row][2] \in DOMAIN fr.b

\* A system over two interior vertices with coefficients in both rows is
\* handed to the solver.
C13_Witness ==
    /\ fr.pc = "solve"
    /\ Cardinality(DOMAIN fr.vert_col_map) = 2
    /\ {key[1] : key \in DOMAIN fr.A} = {0, 1}

(***************************************************************************)
(* C19: fair writes the position only of vertices of the column map (in    *)
(* the input list, not boundary, not wire).  Every other position, of a    *)
(* selected boundary or wire vertex or of a vertex outside the list, is    *)
(* unchanged by every fair call whatever its outcome, and the assembly     *)
(* writes no position at all.                                              *)
(***************************************************************************)
C19_State ==
    fr.pc # "idle" =>
        /\ \A v \in Verts \ ColVerts : co[v] = gh.entry_co[v]
        /\ fr.pc \in {"setup_loop", "setup_row", "solve", "apply_check"} =>
              co = gh.entry_co
        /\ \A v \in ColVerts :
              /\ \E k \in 1..Len(fr.verts) : fr.verts[k] = v
              /\ ~is_boundary[v] /\ ~is_wire[v]

C19_Step ==
    /\ \A v \in Verts :
          co'[v] # co[v] => (fr.pc = "apply" /\ v \in ColVerts)
    /\ fr.pc # "idle" => vertices_co' = vertices_co

C19_WritesOnlyColumnVertices == [](C19_State) /\ [][C19_Step]_vars

\* A successful call over a list that holds an interior and a boundary
\* vertex, with a third vertex outside the list.
C19_Witness ==
    /\ FairReturned
    /\ fr.ret
    /\ Len(fr.verts) = 2
    /\ Cardinality(ColVerts) = 1
    /\ gh.written = ColVerts

\* C14: when setup_fairing is called with k = 0 for a vertex v, a row i and
\* a multiplier m, exactly one of two things happens.  (a) v has a column
\* j: the coefficient A[i, j] is its old value (zero when the key was
\* absent) minus m, no other coefficient changes and b is unchanged.  (b) v
\* has no column, whether it is a boundary vertex or an interior vertex
\* outside the list: m times v's position is added to the three entries of
\* b[i], the other rows of b and all of A are unchanged.
C14_BaseCase ==
    (tc.pc = "row_returned" /\ tc.row.k = 0) =>
        LET v  == tc.row.v
            i  == tc.row.i
            m  == tc.row.m
            A0 == tc.row.A0
            b0 == tc.row.b0
        IN  IF v \in DOMAIN tc.vert_col_map
            THEN LET j == tc.vert_col_map[v]
                 IN  /\ DOMAIN tc.A = DOMAIN A0 \cup {<<i, j>>}
                     /\ tc.A[<<i, j>>] = RSub(Entry(A0, i, j), m)
                     /\ \A key \in DOMAIN A0 \ {<<i, j>>} : tc.A[key] = A0[key]
                     /\ tc.b = b0
            ELSE /\ tc.A = A0
                 /\ DOMAIN tc.b = DOMAIN b0
                 /\ \A c \in 1..3 :
                        tc.b[i][c] = RAdd(b0[i][c], RMul(m, co[v][c]))
                 /\ \A r \in DOMAIN b0 \ {i} : tc.b[r] = b0[r]

\* An interior vertex that is not in the list was given to the base case:
\* it has no column and its position went into b.
C14_Witness ==
    /\ tc.pc = "row_returned"
    /\ tc.row.k = 0
    /\ tc.row.v \notin DOMAIN tc.vert_col_map
    /\ ~is_boundary[tc.row.v]
    /\ ~is_wire[tc.row.v]
    /\ tc.b # tc.row.b0
    /\ tc.A = tc.row.A0

\* The base case met a coefficient that was already there.
C14_Accumulates ==
    /\ tc.pc = "row_returned"
    /\ tc.row.k = 0
    /\ tc.row.v \in DOMAIN tc.vert_col_map
    /\ <<tc.row.i, tc.vert_col_map[tc.row.v]>> \in DOMAIN tc.row.A0
    /\ tc.A # tc.row.A0

(***************************************************************************)
(* The weighted graph Laplacian of the mesh and its powers.                *)
(***************************************************************************)
Identity == [e \in Verts \X Verts |-> IF e[1] = e[2] THEN RInt(1) ELSE RInt(0)]

LoopsTo(v, u) == {l \in Loops : loop_vert(l) = v /\ link_loop_next_vert(l) = u}

LoopsOf(v) == {l \in Loops : loop_vert(l) = v}

\* L[v, u] = w_v * (sum of w_l over the loops of v that lead to u), and
\* L[v, v] less w_v * (sum of w_l over all the loops of v).
Laplacian(vw, lw) ==
    LET L == [e \in Verts \X Verts |->
                 RMul(vw[e[1]],
                      RSub(RSum(lw, LoopsTo(e[1], e[2])),
                           IF e[1] = e[2] THEN RSum(lw, LoopsOf(e[1]))
                           ELSE RInt(0)))]
    IN  IF Evaluated(L) THEN L ELSE Identity

MatMul(P, Q) ==
    LET M == [e \in Verts \X Verts |->
                 RSum([t \in Verts |-> RMul(P[<<e[1], t>>], Q[<<t, e[2]>>])],
                      Verts)]
    IN  IF Evaluated(M) THEN M ELSE Identity

RECURSIVE MatPow(_, _)
MatPow(P, k) ==
    IF k = 0 THEN Identity
    ELSE MatMul(P, MatPow(P, k - 1))

\* The vertices without a column.
NoColumn == Verts \ DOMAIN tc.vert_col_map

\* Row v of the matrix M applied to the positions of the vertices without
\* a column, component c.
KnownSide(M, v, c) ==
    RSum([u \in Verts |-> RMul(M[<<v, u>>], co[u][c])], NoColumn)

\* C15 (the assembled system): when fair has assembled the system for the
\* order k, row i of the vertex v_i holds A[i, j] = -(L^k)[v_i, v_j] for
\* every vertex v_j with a column, and b[i] = the sum over the vertices u
\* without a column of (L^k)[v_i, u] * position(u).
C15_Assembled ==
    tc.pc \in {"solve", "apply"} =>
        \A Lk \in {MatPow(Laplacian(tc.vert_weights, tc.loop_weights), tc.order)} :
            \A r \in 1..Len(tc.items) :
                LET v == tc.items[r][1]
                    i == tc.items[r][2]
                IN  /\ \A u \in DOMAIN tc.vert_col_map :
                           Entry(tc.A, i, tc.vert_col_map[u]) = RNeg(Lk[<<v, u>>])
                    /\ \A c \in 1..3 : tc.b[i][c] = KnownSide(Lk, v, c)

\* C15 (one call): setup_fairing(v, i, k, m) adds -m * (L^k)[v, u] to the
\* coefficient of every vertex u with a column and m * (L^k)[v, u] *
\* position(u) to b[i] for every vertex u without one, which is what the
\* calls for the loops with w_i * w_ij * m and the call for v itself with
\* -m * w_i * (sum of w_ij) add up to; the other rows are untouched.
C15_OneCall ==
    tc.pc = "row_returned" =>
        \A Lk \in {MatPow(Laplacian(tc.vert_weights, tc.loop_weights), tc.row.k)} :
        LET v  == tc.row.v
            i  == tc.row.i
            m  == tc.row.m
        IN  /\ \A u \in DOMAIN tc.vert_col_map :
                   LET j == tc.vert_col_map[u]
                   IN  Entry(tc.A, i, j) =
                           RSub(Entry(tc.row.A0, i, j), RMul(m, Lk[<<v, u>>]))
            /\ \A c \in 1..3 :
                   tc.b[i][c] = RAdd(tc.row.b0[i][c], RMul(m, KnownSide(Lk, v, c)))
            /\ \A r \in DOMAIN tc.b \ {i} :
                   /\ tc.b[r] = tc.row.b0[r]
                   /\ \A j \in DOMAIN tc.b : Entry(tc.A, r, j) = Entry(tc.row.A0, r, j)

\* C15: the system assembled by fair is the k-fold application of the
\* weighted graph Laplacian L, A[i, j] = -(L^k)[v_i, v_j] and b[i] = the
\* sum of (L^k)[v_i, u] * position(u) over the vertices without a column,
\* and every call of setup_fairing contributes m * (L^k)[v, .] to its row.
C15_IteratedLaplacian == C15_Assembled /\ C15_OneCall

\* A system of order 3 over two columns was assembled, with a vertex
\* without a column on the right-hand side and a coefficient off the
\* diagonal.
C15_Witness ==
    /\ tc.pc = "solve"
    /\ tc.order = 3
    /\ Len(tc.items) = 2
    /\ Entry(tc.A, 0, 1) # RInt(0)
    /\ \E c \in 1..3 : tc.b[0][c] # RInt(0)

\* The system of the call's return has the numeric values it had at the
\* call: every coefficient (an absent key counts as zero) and every entry
\* of b.
NumericallyUnchanged ==
    /\ \A i \in DOMAIN tc.b, j \in DOMAIN tc.b :
           Entry(tc.A, i, j) = Entry(tc.row.A0, i, j)
    /\ tc.b = tc.row.b0

\* L without the self term: w_v * (sum of w_l over the loops of v to u).
LoopTerms(vw, lw) ==
    LET T == [e \in Verts \X Verts |->
                 RMul(vw[e[1]], RSum(lw, LoopsTo(e[1], e[2])))]
    IN  IF Evaluated(T) THEN T ELSE Identity

C16_NoLoops ==
    /\ tc.pc = "row_returned"
    /\ tc.row.k > 1
    /\ LoopsOf(tc.row.v) = {}
    /\ tc.row.v \in DOMAIN tc.vert_col_map
    /\ NumericallyUnchanged
    /\ tc.A # tc.row.A0

\* The vertices that share an edge with v.
Neighbours(v) == {u \in Verts \ {v} : {v, u} \in link_edges(v)}

\* The average of the positions pos of the vertices of the set S,
\* component c.
Average(pos, S, c) ==
    RDiv(RSum([u \in Verts |-> pos[u][c]], S), RInt(Cardinality(S)))

\* fair was called with order 1 and uniform weights and one vertex got a
\* column: a vertex that has neighbours.
SingleVertexCall(v) ==
    /\ tc.pc # "row_returned"
    /\ tc.order = 1
    /\ tc.kind = "UNIFORM"
    /\ DOMAIN tc.vert_col_map = {v}
    /\ Neighbours(v) # {}

\* What the claim says of the call for the vertex v.
SingleVertexAverage(v) ==
    /\ tc.pc \in {"solve", "apply"} =>
           /\ DOMAIN tc.A = {<<0, 0>>}
           /\ tc.A[<<0, 0>>] = RInt(1)
           /\ \A c \in 1..3 : tc.b[0][c] = Average(co, Neighbours(v), c)
    /\ (tc.pc = "returned" /\ tc.ret) =>
           /\ \A c \in 1..3 : co[v][c] = Average(tc.co0, Neighbours(v), c)
           /\ \A u \in Verts \ {v} : co[u] = tc.co0[u]

\* The statement as the specification has it: for any single interior
\* vertex with order 1 and uniform weights the system is A[0, 0] = 1,
\* b[0] = the average of the neighbours, and the vertex moves there.
C17_SingleVertexAnyMesh ==
    \A v \in Verts : SingleVertexCall(v) => SingleVertexAverage(v)

\* C17: for a single interior vertex v with a column, order 1 and uniform
\* weights, when every neighbour of v is the next vertex of exactly one
\* loop of v (the faces around v are consistently oriented), fair assembles
\* A[0, 0] = 1 and b[0] = the average of the positions of v's neighbours;
\* a successful call moves v to that average and moves no other vertex.
C17_SingleVertexAmended ==
    \A v \in Verts :
        (/\ SingleVertexCall(v)
         /\ \A u \in Neighbours(v) : Cardinality(LoopsTo(v, u)) = 1)
            => SingleVertexAverage(v)

\* The call returned True and the vertex is at the average of its two
\* neighbours, where it was not before.
C17_Witness ==
    \E v \in Verts :
        /\ SingleVertexCall(v)
        /\ \A u \in Neighbours(v) : Cardinality(LoopsTo(v, u)) = 1
        /\ tc.pc = "returned"
        /\ tc.ret
        /\ tc.runs = 1
        /\ co[v] # tc.co0[v]

\* fair was called with order 1 and uniform weights.
UniformPositionCall ==
    /\ tc.pc # "row_returned"
    /\ tc.order = 1
    /\ tc.kind = "UNIFORM"

\* Every vertex with a column had, when fair was first called, the
\* position that is the average of its neighbours' positions.
AlreadyFair ==
    /\ DOMAIN tc.vert_col_map # {}
    /\ \A v \in DOMAIN tc.vert_col_map :
           /\ Neighbours(v) # {}
           /\ \A c \in 1..3 : tc.co0[v][c] = Average(tc.co0, Neighbours(v), c)

\* The faces around every vertex with a column are consistently oriented:
\* each neighbour is the next vertex of exactly one loop.
ConsistentlyOriented ==
    \A v \in DOMAIN tc.vert_col_map :
        \A u \in Neighbours(v) : Cardinality(LoopsTo(v, u)) = 1

\* The positions pos of the vertices with a column solve A x = b.
Satisfies(pos) ==
    \A r \in 1..Len(tc.items) : \A c \in 1..3 :
        RSum([u \in Verts |->
                 RMul(Entry(tc.A, tc.items[r][2],
                            IF u \in DOMAIN tc.vert_col_map
                            THEN tc.vert_col_map[u] ELSE 0),
                      pos[u][c])],
             DOMAIN tc.vert_col_map) = tc.b[tc.items[r][2]][c]

\* What the claim says of a call on a patch that is already fair.
FixedPoint ==
    /\ tc.pc \in {"solve", "apply"} => Satisfies(tc.co0)
    /\ (tc.pc = "returned" /\ tc.ret) => co = tc.co0

\* The statement as the specification has it: on any mesh, a patch whose
\* vertices sit at the average of their neighbours is left unchanged.
C18_FixedPointAnyMesh ==
    (UniformPositionCall /\ AlreadyFair) => FixedPoint

\* C18: with order 1 and uniform weights, on a patch whose faces are
\* consistently oriented and whose vertices with a column all sit at the
\* average of their neighbours, the positions satisfy the assembled system
\* A x = b and a successful fair leaves every position unchanged; and on
\* any patch the second run of fair ends with the positions the first run
\* ended with.
C18_IdempotentAmended ==
    UniformPositionCall =>
        /\ (AlreadyFair /\ ConsistentlyOriented) => FixedPoint
        /\ (tc.pc = "returned" /\ tc.runs = 2) => co = tc.co1

\* fair ran twice with success on a fair patch and the positions are the
\* ones before the first run.
C18_Witness ==
    /\ UniformPositionCall
    /\ AlreadyFair
    /\ ConsistentlyOriented
    /\ tc.pc = "returned"
    /\ tc.runs = 2
    /\ tc.ret
    /\ co = tc.co0

\* fair ran twice with success on a patch that was not fair: the first run
\* moved a vertex, the second left everything where the first put it.
C18_SecondRunSame ==
    /\ UniformPositionCall
    /\ tc.pc = "returned"
    /\ tc.runs = 2
    /\ tc.ret
    /\ tc.co1 # tc.co0
    /\ co = tc.co1

\* C20 (every state): the weight function has been evaluated once for
\* every key that was looked up and never for another key, and a key is
\* stored only after its evaluation.
C20_State ==
    wc.pc # "idle" =>
        \A k \in Verts :
            /\ wc.evals[k] = IF wc.lookups[k] > 0 THEN 1 ELSE 0
            /\ k \in DOMAIN wc.store => wc.evals[k] = 1

\* C20 (every step): a stored value stays what it is, and a lookup of a
\* stored key evaluates nothing and returns the stored value.
C20_Step ==
    wc.pc # "idle" =>
        /\ \A k \in DOMAIN wc.store :
               k \in DOMAIN wc'.store /\ wc'.store[k] = wc.store[k]
        /\ (wc'.n > wc.n /\ wc'.pc = "open") =>
               /\ wc'.ret.val = wc'.store[wc'.ret.key]
               /\ wc'.ret.key \in DOMAIN wc.store =>
                      /\ wc'.ret.val = wc.store[wc'.ret.key]
                      /\ wc'.evals = wc.evals

\* C20: over any sequence of lookups of a cache, by cache[key] or by
\* cache.get(key), the weight function is evaluated exactly once for every
\* key that is looked up, at its first lookup, the value stored for a key
\* never changes, and every later lookup returns that value.
C20_EvaluatedOnce == [](C20_State) /\ [][C20_Step]_vars

\* A key was looked up three times, the last time by get, and evaluated
\* once, and another key holds another value.
C20_Witness ==
    /\ wc.pc = "open"
    /\ wc.ret.via = "get"
    /\ \E k \in Verts :
           /\ wc.lookups[k] = 3
           /\ wc.evals[k] = 1
           /\ wc.ret.key = k
           /\ \E h \in DOMAIN wc.store : wc.store[h] # wc.store[k]

\* C21: no solve of a backend lets an exception out: fair never ends in an
\* exception of the solver, what it binds to x is None or an array, and a
\* call whose solve returned None returns False with every position as it
\* was when the call was entered.
C21_SolveNeverRaises ==
    /\ fr.pc # "Exception"
    /\ fr.pc # "idle" => fr.x.tag \in {"unbound", "None", "array"}
    /\ gh.solved.tag \notin {"raised"}
    /\ (fr.pc = "returned" /\ gh.solved.tag = "None") =>
           /\ ~fr.ret
           /\ gh.written = {}
           /\ co = gh.entry_co

\* A numeric backend failed on a system that has rows, with the cancel
\* flag unset: fair returned False.
C21_Witness ==
    /\ fr.pc = "returned"
    /\ solver \in {"NumPySolver", "SciPySolver"}
    /\ NumCols(fr) > 0
    /\ gh.solved.tag = "None"
    /\ ~cancel_event
    /\ ~fr.ret

\* C22 (every state): once init() has run, the backend is the sparse
\* solver when scipy is installed, else the dense solver when numpy is
\* installed, else the null solver; before init() it is the null solver.
C22_State ==
    solver = IF ~registered THEN "NullSolver"
             ELSE IF scipy_installed THEN "SciPySolver"
             ELSE IF numpy_installed THEN "NumPySolver"
             ELSE "NullSolver"

\* C22 (every step): the backend changes in init() only, and no fair call
\* is running then.
C22_Step ==
    solver' # solver => (~registered /\ registered' /\ fr.pc = "idle")

C23_FailureCancels ==
    /\ ret_pre = "False" => cancel_event
    /\ ret_fair = "False" => cancel_event
    /\ (op_result \in {"FINISHED", "CANCELLED"}
           /\ (ret_pre = "False" \/ ret_fair = "False")) =>
           op_result = "CANCELLED"
    /\ op_result = "FINISHED" =>
           /\ ret_pre = "True"
           /\ ret_fair = "True"
           /\ thread = "dead"

\* The pre-fairing call succeeded, the requested call returned False, the
\* worker ended and the operator returned CANCELLED.
C23_Witness ==
    /\ op_result = "CANCELLED"
    /\ ret_pre = "True"
    /\ ret_fair = "False"
    /\ thread = "dead"

\* Both calls returned True and the operator returned FINISHED.
C23_Finished ==
    /\ op_result = "FINISHED"
    /\ ret_pre = "True"
    /\ ret_fair = "True"

\* C24: whenever the cancel flag becomes set, the solver is invoked only
\* after setup_fairing has run for every row 0..n-1 of this call: at the
\* solve, and whenever a solve has been made, no row was skipped.
C24_SolveOnlyCompleteSystem ==
    (fr.pc = "solve" \/ gh.n_solve > 0) =>
        /\ gh.rows = 0..(NumCols(fr) - 1)
        /\ gh.n_setup = NumCols(fr)
        /\ fr.row = Len(fr.items) + 1

\* The flag was set while the second of two rows was assembled; the row
\* was completed and the solver was not invoked.
C24_CancelDuringRow ==
    /\ fr.pc = "returned"
    /\ NumCols(fr) = 2
    /\ gh.cancel_at = "setup_row"
    /\ gh.rows = {0, 1}
    /\ gh.n_solve = 0

\* The flag was set after the 'Solve' checkpoint: the solver got the
\* complete system of two rows.
C24_Witness ==
    /\ gh.n_solve = 1
    /\ NumCols(fr) = 2
    /\ gh.cancel_at = "solve"
    /\ gh.rows = {0, 1}

\* The flag was set before the second row: the row was skipped and the
\* solver was not invoked.
C24_RowSkipped ==
    /\ fr.pc = "returned"
    /\ NumCols(fr) = 2
    /\ gh.rows = {0}
    /\ gh.n_solve = 0
    /\ ~gh.entry_cancel

\* C25 (every state): a final result that came from modal_finish finds
\* the timer removed and the worker started; while the operator is modal
\* the timer is registered, and the worker is unstarted exactly while the
\* handler is modal_start.
C25_State ==
    /\ (modal_handler = "modal_finish" /\ op_result \in {"FINISHED", "CANCELLED"}) =>
           ~timer /\ thread # "unstarted"
    /\ op_result = "RUNNING_MODAL" => timer
    /\ op_result = "FINISHED" => modal_handler = "modal_finish"
    /\ modal_handler \in {"none", "modal_start"} <=> thread = "unstarted"

\* C25 (every step): the handler goes from modal_start to modal_monitor to
\* modal_finish and never back; the thread is started by modal_start only
\* and once; the timer is removed by modal_finish only and not registered
\* again; modal_finish returns CANCELLED when the cancel flag is set and
\* FINISHED when it is not; no other modal call ends the modal state.
C25_Step ==
    /\ modal_handler' # modal_handler =>
           <<modal_handler, modal_handler'>> \in
               {<<"none", "modal_start">>, <<"modal_start", "modal_monitor">>,
                <<"modal_monitor", "modal_finish">>}
    /\ thread' # thread =>
           \/ /\ thread = "unstarted" /\ thread' = "alive"
              /\ modal_handler = "modal_start" /\ modal_handler' = "modal_monitor"
           \/ thread = "alive" /\ thread' = "dead"
    /\ (timer /\ ~timer') =>
           /\ modal_handler = "modal_finish"
           /\ op_result = "RUNNING_MODAL"
           /\ op_result' \in {"FINISHED", "CANCELLED"}
    /\ (~timer /\ timer') => op_result = "none"
    /\ (op_result = "RUNNING_MODAL" /\ op_result' # op_result) =>
           /\ modal_handler = "modal_finish"
           /\ ~timer'
           /\ op_result' = IF cancel_event THEN "CANCELLED" ELSE "FINISHED"
    /\ op_result \in {"FINISHED", "CANCELLED"} =>
           /\ op_result' = op_result
           /\ modal_handler' = modal_handler
           /\ timer' = timer

\* C25: per invocation the modal handler is modal_start, modal_monitor,
\* modal_finish in that order only; the worker is created and started
\* once, in modal_start; the timer is removed once, in modal_finish;
\* modal_finish returns CANCELLED if and only if the worker's cancel flag
\* is set at that moment and FINISHED otherwise; every earlier modal call
\* returns RUNNING_MODAL.
C25_ModalProtocol == [](C25_State) /\ [][C25_Step]_vars

\* modal_finish has returned CANCELLED for a worker whose flag was set by
\* an ESC: the timer is gone.
C25_Witness ==
    /\ modal_handler = "modal_finish"
    /\ op_result = "CANCELLED"
    /\ cancel_event
    /\ ~timer
    /\ ret_pre # "False"
    /\ ret_fair # "False"
    /\ op = "mesh"

\* C26: while timer events keep being delivered and the worker is
\* scheduled until it ends or is cancelled, every operator that entered
\* the modal state eventually reaches modal_finish and returns FINISHED
\* or CANCELLED; it does not stay in modal_monitor for ever.
C26_EventuallyFinishes ==
    (op_result = "RUNNING_MODAL") ~>
        (modal_handler = "modal_finish" /\ op_result \in {"FINISHED", "CANCELLED"})

\* The sculpt operator has gone through the modal state and returned
\* FINISHED after its worker ended.
C26_Witness ==
    /\ op = "sculpt"
    /\ modal_handler = "modal_finish"
    /\ op_result = "FINISHED"
    /\ thread = "dead"

\* C27: cancel() sets the cancel flag only if the thread is alive at that
\* moment; once run() has ended the flag stays as it is, so an ESC cannot
\* turn the FINISHED of a terminated worker into CANCELLED.
C27_CancelOnlyWhileAlive ==
    [][(~cancel_event /\ cancel_event') => thread = "alive"]_vars

Holes(fmt) == Cardinality({k \in DOMAIN fmt : fmt[k] = Hole})

\* C28: whatever the interleaving of get_status with set_status, get_status
\* returns a string and never raises; when the format it read has a
\* replacement field and the arguments it read are too few (a new format
\* with the old arguments), the string is the empty one.
C28_GetStatusNeverRaises ==
    (th.pc = "open" /\ th.rpc = "returned") =>
        /\ th.result.tag = "str"
        /\ Holes(th.rfmt) > Len(th.rargs) => th.result.val = <<>>
        /\ Holes(th.rfmt) = 0 => th.result.val = th.rfmt

\* get_status read '[Pre-Fairing] {}' between the two writes of
\* set_status, with the empty arguments of the call before, and returned
\* the empty string.
C28_Witness ==
    /\ th.pc = "open"
    /\ th.rpc = "returned"
    /\ th.rfmt = <<"[Pre-Fairing] ", Hole>>
    /\ th.rargs = <<>>
    /\ th.result = [tag |-> "str", val |-> <<>>]

\* The other way round: an old format without a field read with the new
\* arguments formats to the old text.
C28_OldFormatNewArgs ==
    /\ th.pc = "open"
    /\ th.rpc = "returned"
    /\ Holes(th.rfmt) = 0
    /\ th.rargs = <<"fairing_status">>
    /\ th.result.val = th.rfmt

\* The sum of the coefficients of row i of the matrix M.
RowSum(M, i) == RSum([j \in DOMAIN tc.b |-> Entry(M, i, j)], DOMAIN tc.b)

\* C29 (the assembled system): with every vertex at the point p, whose
\* first coordinate is 1, b[i][1] is the sum of the multipliers that the
\* vertices without a column received; it equals the sum of row i of A,
\* and x = p satisfies row i in every coordinate.
C29_Assembled ==
    (tc.pc \in {"solve", "apply"} /\ tc.order >= 1 /\ co = PointCo) =>
        \A i \in DOMAIN tc.b :
            /\ RowSum(tc.A, i) = tc.b[i][1]
            /\ \A c \in 1..3 :
                   RMul(RowSum(tc.A, i), PointCo[1][c]) = tc.b[i][c]

\* C29 (one call): setup_fairing(v, i, k, m) with k >= 1 adds to the sum
\* of row i of A what it adds to b[i] as multipliers of vertices without
\* a column.
C29_OneCall ==
    (tc.pc = "row_returned" /\ tc.row.k >= 1 /\ co = PointCo) =>
        \A c \in 1..3 :
            RMul(RSub(RowSum(tc.A, tc.row.i), RowSum(tc.row.A0, tc.row.i)),
                 PointCo[1][c])
              = RSub(tc.b[tc.row.i][c], tc.row.b0[tc.row.i][c])

\* C29: for every order k >= 1 the multipliers that setup_fairing delivers
\* to the base cases of a row sum to zero, so the sum over j of A[i, j]
\* equals the sum of the multipliers accumulated into b[i] from the
\* vertices without a column; and when all the vertices share one
\* position p, x = p satisfies row i of A x = b.
C29_MultipliersSumToZero == C29_Assembled /\ C29_OneCall

\* A system of order 2 over two columns was assembled with every vertex at
\* p; vertices without a column were reached from row 0, whose
\* coefficients do not sum to zero.
C29_Witness ==
    /\ tc.pc = "solve"
    /\ co = PointCo
    /\ tc.order = 2
    /\ Len(tc.items) = 2
    /\ RowSum(tc.A, 0) # RInt(0)
    /\ tc.b[0][1] = RowSum(tc.A, 0)

\* With k = 0 the one multiplier goes to one base case and the sum is the
\* multiplier, not zero.
C29_OrderZero ==
    /\ tc.pc = "row_returned"
    /\ tc.row.k = 0
    /\ co = PointCo
    /\ RSub(RowSum(tc.A, tc.row.i), RowSum(tc.row.A0, tc.row.i))
         # RSub(tc.b[tc.row.i][1], tc.row.b0[tc.row.i][1])

\* The vertices that share an edge with a vertex of S.
Adjacent(S) == UNION {{other_vert(e, u) : e \in link_edges(u)} : u \in S}

\* The vertices reachable from v along at most d edges.
RECURSIVE Within(_, _)
Within(v, d) ==
    IF d <= 0 THEN {v}
    ELSE LET W == Within(v, d - 1) IN W \cup Adjacent(W)

\* C30: for every vertex v and every integer dist, dist <= 0 included
\* (where the result is {v}), get_closed_neighborhood(v, dist) comes to
\* its end by returning exactly the set of the vertices reachable from v
\* along at most dist edges.
C30_ClosedNeighborhood ==
    /\ nb.pc # "UnboundLocalError"
    /\ nb.pc = "returned" => nb.ret = SetOf(Within(nb.v, nb.dist))

\* For dist >= 1 the call returns the vertices within dist edges, and the
\* visited set never holds another vertex.
C30_PositiveDistance ==
    nb.dist >= 1 =>
        /\ nb.pc # "UnboundLocalError"
        /\ nb.pc = "returned" => nb.ret = SetOf(Within(nb.v, nb.dist))
        /\ nb.pc = "while" => nb.visited.val \subseteq Within(nb.v, nb.dist)

\* A search over one edge along the strip has returned the neighbours of
\* v and not the vertices two edges away.
C30_OneEdge ==
    /\ nb.pc = "returned"
    /\ nb.dist = 1
    /\ nb.ret.val # {nb.v}
    /\ nb.ret.val # Within(nb.v, 2)

=============================================================================
